---- MODULE Spec2Model ----
(***************************************************************************)
(* Model of the content-loss repair scripts                                *)
(*   fix_content_loss.py, fix_keywords.py, fix_all_keywords.py,            *)
(*   fix_remaining_bibliography.py                                         *)
(* Texts are sequences of characters (one-character strings).  A document  *)
(* is a sequence of markup segments; a segment holds the literal text      *)
(* between its tags.                                                       *)
(***************************************************************************)
EXTENDS Integers, Sequences, FiniteSets, TLC

VARIABLES src, xml, out, last, issues_found, work

vars == <<src, xml, out, last, issues_found, work>>

(***************************************************************************)
(* Characters and character classes of the regular expressions.            *)
(***************************************************************************)
Lower == {"a", "b", "c", "d", "e", "f", "g", "h", "i", "j", "k", "l", "m",
          "n", "o", "p", "q", "r", "s", "t", "u", "v", "w", "x", "y", "z"}

Upper == {"A", "B", "C", "D", "E", "F", "G", "H", "I", "J", "K", "L", "M",
          "N", "O", "P", "Q", "R", "S", "T", "U", "V", "W", "X", "Y", "Z"}

Digit == {"0", "1", "2", "3", "4", "5", "6", "7", "8", "9"}

\* \s of Python's re on str, and the characters str.strip() removes
Space == {" ", "\t", "\n", "\r", "\f"}

\* every character a text of the model may hold
Chars == Lower \cup Upper \cup Digit \cup Space \cup
         {"@", ".", ",", "_", "+", "-", "&", ";", "#", "<", ">", "\"", "'", "/", ":"}

(***************************************************************************)
(* Sequence helpers.                                                       *)
(***************************************************************************)
Rep(c, n) == [i \in 1..n |-> c]

RECURSIVE Concat(_)
Concat(ss) == IF ss = <<>> THEN <<>> ELSE Head(ss) \o Concat(Tail(ss))

Min(a, b) == IF a < b THEN a ELSE b

(***************************************************************************)
(* Regular expressions.  A pattern is a tree of character classes,         *)
(* concatenations, alternatives and repetitions; Ends(r, s, I) is the set  *)
(* of positions of s at which a match of r that starts at a position of I  *)
(* can end (positions count the characters already consumed).              *)
(***************************************************************************)
Cls(S) == [t |-> "cls", s |-> S]

Cat(rs) == [t |-> "cat", rs |-> rs]

Alt(rs) == [t |-> "alt", rs |-> rs]

Star(r) == [t |-> "star", r |-> r]

Plus(r) == Cat(<<r, Star(r)>>)

Lit(str) == [t |-> "lit", s |-> str]

RECURSIVE Ends(_, _, _)
Ends(r, s, I) ==
    CASE r.t = "cls" ->
           {i + 1 : i \in {j \in I : j < Len(s) /\ s[j + 1] \in r.s}}
      [] r.t = "lit" ->
           {i + Len(r.s) : i \in {j \in I : /\ j + Len(r.s) <= Len(s)
                                              /\ \A k \in 1..Len(r.s) : s[j + k] = r.s[k]}}
      [] r.t = "cat" ->
           IF r.rs = <<>> THEN I
           ELSE Ends(Cat(Tail(r.rs)), s, Ends(Head(r.rs), s, I))
      [] r.t = "alt" ->
           UNION {Ends(r.rs[k], s, I) : k \in 1..Len(r.rs)}
      [] r.t = "star" /\ r.r.t = "cls" ->
           UNION {{j \in 0..Len(s) :
                      \E i \in K : i <= j /\ \A k \in (i + 1)..j : s[k] \in r.r.s} :
                  K \in {I}}
      [] r.t = "star" /\ r.r.t # "cls" ->
           UNION {IF J = K THEN K ELSE Ends(r, s, J) :
                  <<K, J>> \in {<<K0, K0 \cup Ends(r.r, s, K0)>> : K0 \in {I}}}

\* (below, \E t \in {s} names the value of s, computed once)
\* the pattern matches the whole of s
FullMatch(r, s) == \E t \in {s} : Len(t) \in Ends(r, t, {0})

\* the pattern matches somewhere in s (re.search)
Search(r, s) == \E t \in {s} : Ends(r, t, 0..Len(t)) # {}

\* the literal sub occurs in s (Python's "sub in s")
Contains(s, sub) ==
    \E t \in {s} :
        \E i \in 0..(Len(t) - Len(sub)) : \A k \in 1..Len(sub) : t[i + k] = sub[k]

(***************************************************************************)
(* str.strip() and re.sub(r'\s+', ' ', s).                                 *)
(***************************************************************************)
RECURSIVE LStrip(_)
LStrip(s) == IF s # <<>> /\ Head(s) \in Space THEN LStrip(Tail(s)) ELSE s

RECURSIVE RStrip(_)
RStrip(s) ==
    IF s # <<>> /\ s[Len(s)] \in Space THEN RStrip(SubSeq(s, 1, Len(s) - 1)) ELSE s

Strip(s) == RStrip(LStrip(s))

RECURSIVE CollapseSpace(_)
CollapseSpace(s) ==
    IF s = <<>> THEN <<>>
    ELSE IF Head(s) \in Space
         THEN <<" ">> \o CollapseSpace(LStrip(s))
         ELSE <<Head(s)>> \o CollapseSpace(Tail(s))

(***************************************************************************)
(* html.escape(s) with quote=True: five replacements, "&" first.           *)
(***************************************************************************)
RECURSIVE ReplaceChar(_, _, _)
ReplaceChar(s, c, r) ==
    IF s = <<>> THEN <<>>
    ELSE (IF Head(s) = c THEN r ELSE <<Head(s)>>) \o ReplaceChar(Tail(s), c, r)

\* the five replacements with '&' replaced after '<' and '>'
EscapeUnordered(s) ==
    LET s1 == ReplaceChar(s, "<", <<"&", "l", "t", ";">>)
        s2 == ReplaceChar(s1, ">", <<"&", "g", "t", ";">>)
        s3 == ReplaceChar(s2, "&", <<"&", "a", "m", "p", ";">>)
        s4 == ReplaceChar(s3, "\"", <<"&", "q", "u", "o", "t", ";">>)
    IN  ReplaceChar(s4, "'", <<"&", "#", "x", "2", "7", ";">>)

\* html.escape(s): '&' first, then '<', '>', '"' and "'"
HtmlEscape(s) ==
    LET s1 == ReplaceChar(s, "&", <<"&", "a", "m", "p", ";">>)
        s2 == ReplaceChar(s1, "<", <<"&", "l", "t", ";">>)
        s3 == ReplaceChar(s2, ">", <<"&", "g", "t", ";">>)
        s4 == ReplaceChar(s3, "\"", <<"&", "q", "u", "o", "t", ";">>)
    IN  ReplaceChar(s4, "'", <<"&", "#", "x", "2", "7", ";">>)

(***************************************************************************)
(* html.unescape(s): every character reference                             *)
(*   &(#[0-9]+;?|#[xX][0-9a-fA-F]+;?|[^\t\n\f <&#;]{1,32};?)               *)
(* is replaced as _replace_charref does.                                   *)
(***************************************************************************)
HexSeq == <<"0", "1", "2", "3", "4", "5", "6", "7", "8", "9",
            "a", "b", "c", "d", "e", "f">>

HexUpper == <<"0", "1", "2", "3", "4", "5", "6", "7", "8", "9",
              "A", "B", "C", "D", "E", "F">>

HexDigit == {HexSeq[i] : i \in 1..16} \cup {HexUpper[i] : i \in 1..16}

DigitVal(c) == (CHOOSE i \in 1..16 : HexSeq[i] = c \/ HexUpper[i] = c) - 1

RECURSIVE ToInt(_, _)
ToInt(ds, base) ==
    IF ds = <<>> THEN 0
    ELSE ToInt(SubSeq(ds, 1, Len(ds) - 1), base) * base + DigitVal(ds[Len(ds)])

DigitSeq == <<"0", "1", "2", "3", "4", "5", "6", "7", "8", "9">>

UpperSeq == <<"A", "B", "C", "D", "E", "F", "G", "H", "I", "J", "K", "L", "M",
              "N", "O", "P", "Q", "R", "S", "T", "U", "V", "W", "X", "Y", "Z">>

LowerSeq == <<"a", "b", "c", "d", "e", "f", "g", "h", "i", "j", "k", "l", "m",
              "n", "o", "p", "q", "r", "s", "t", "u", "v", "w", "x", "y", "z">>

\* code points of the other characters of Chars
Punct ==
    {<<9, "\t">>, <<10, "\n">>, <<12, "\f">>, <<13, "\r">>, <<32, " ">>,
     <<34, "\"">>, <<35, "#">>, <<38, "&">>, <<39, "'">>, <<43, "+">>,
     <<44, ",">>, <<45, "-">>, <<46, ".">>, <<47, "/">>, <<58, ":">>,
     <<59, ";">>, <<60, "<">>, <<62, ">">>, <<64, "@">>, <<95, "_">>}

\* chr(num) of a numeric reference, for the code points of Chars
NumRef(n) ==
    CASE n >= 48 /\ n <= 57 -> <<DigitSeq[n - 47]>>
      [] n >= 65 /\ n <= 90 -> <<UpperSeq[n - 64]>>
      [] n >= 97 /\ n <= 122 -> <<LowerSeq[n - 96]>>
      [] \E e \in Punct : e[1] = n -> <<(CHOOSE e \in Punct : e[1] = n)[2]>>

\* the entries of html.entities.html5 that the model's texts can name
Html5 ==
    {<< <<"a", "m", "p", ";">>, <<"&">> >>, << <<"a", "m", "p">>, <<"&">> >>,
     << <<"l", "t", ";">>, <<"<">> >>,      << <<"l", "t">>, <<"<">> >>,
     << <<"g", "t", ";">>, <<">">> >>,      << <<"g", "t">>, <<">">> >>,
     << <<"q", "u", "o", "t", ";">>, <<"\"">> >>,
     << <<"q", "u", "o", "t">>, <<"\"">> >>,
     << <<"a", "p", "o", "s", ";">>, <<"'">> >>}

InHtml5(n) == \E e \in Html5 : e[1] = n

Html5Val(n) == (CHOOSE e \in Html5 : e[1] = n)[2]

\* the characters that end the name of a named reference
NameStop == {"\t", "\n", "\f", " ", "<", "&", "#", ";"}

\* number of leading characters of s that are in S, at most max
RECURSIVE RunLen(_, _, _)
RunLen(s, S, max) ==
    IF max = 0 \/ s = <<>> \/ Head(s) \notin S THEN 0
    ELSE 1 + RunLen(Tail(s), S, max - 1)

\* _replace_charref for a named reference s (the text after "&")
NamedRef(s) ==
    IF InHtml5(s) THEN Html5Val(s)
    ELSE LET xs == {x \in 2..(Len(s) - 1) : InHtml5(SubSeq(s, 1, x))}
         IN  IF xs = {} THEN <<"&">> \o s
             ELSE LET x == CHOOSE y \in xs : \A z \in xs : z <= y
                  IN  Html5Val(SubSeq(s, 1, x)) \o SubSeq(s, x + 1, Len(s))

\* the character reference at the head of s (s starts with "&"):
\* [len |-> characters consumed, rep |-> replacement], len = 0 when none
CharRef(s) ==
    LET r == Tail(s)
        semi(k) == IF Len(r) > k /\ r[k + 1] = ";" THEN 1 ELSE 0
        dec == IF r # <<>> /\ Head(r) = "#" THEN RunLen(Tail(r), Digit, Len(r)) ELSE 0
        hex == IF Len(r) >= 2 /\ r[1] = "#" /\ r[2] \in {"x", "X"}
               THEN RunLen(SubSeq(r, 3, Len(r)), HexDigit, Len(r)) ELSE 0
        nam == RunLen(r, Chars \ NameStop, 32)
    IN  IF dec > 0
        THEN [len |-> 2 + dec + semi(1 + dec),
              rep |-> NumRef(ToInt(SubSeq(r, 2, 1 + dec), 10))]
        ELSE IF hex > 0
        THEN [len |-> 3 + hex + semi(2 + hex),
              rep |-> NumRef(ToInt(SubSeq(r, 3, 2 + hex), 16))]
        ELSE IF nam > 0
        THEN [len |-> 1 + nam + semi(nam),
              rep |-> NamedRef(SubSeq(r, 1, nam + semi(nam)))]
        ELSE [len |-> 0, rep |-> <<>>]

RECURSIVE HtmlUnescape(_)
HtmlUnescape(s) ==
    IF s = <<>> THEN <<>>
    ELSE IF Head(s) = "&" /\ CharRef(s).len > 0
         THEN CharRef(s).rep \o HtmlUnescape(SubSeq(s, CharRef(s).len + 1, Len(s)))
         ELSE <<Head(s)>> \o HtmlUnescape(Tail(s))

(***************************************************************************)
(* Decimal numbers: int(digits) and the formats {n}, {n:02d}, {n:03d},     *)
(* {n:04d}.                                                                *)
(***************************************************************************)
RECURSIVE NatToStr(_)
NatToStr(n) ==
    IF n < 10 THEN <<DigitSeq[n + 1]>>
    ELSE NatToStr(n \div 10) \o <<DigitSeq[(n % 10) + 1]>>

Padded(n, w) ==
    LET d == NatToStr(n)
    IN  IF Len(d) >= w THEN d ELSE Rep("0", w - Len(d)) \o d

(***************************************************************************)
(* Source (XHTML) documents.  The content of a citation div is a sequence  *)
(* of characters and whole tags; a tag is one element of the sequence.     *)
(***************************************************************************)
SpanRefSource == "<span class=\"RefSource\">"

SpanOccurrence == "<span class=\"Occurrence OccurrenceDOI\">"

SpanOther == "<span class=\"EmphasisTypeItalic\">"

SpanClose == "</span>"

AOpen == "<a href=\"u\">"

AClose == "</a>"

EmOpen == "<em>"

EmClose == "</em>"

LineBreak == "<br/>"

SpanOpens == {SpanRefSource, SpanOccurrence, SpanOther}

Tags == SpanOpens \cup {SpanClose, AOpen, AClose, EmOpen, EmClose, LineBreak}

\* [^<]: a character other than "<" (a tag starts with "<")
NotLt == Chars \ {"<"}

\* re.sub(open [^<]* close, repl, s) where repl is the group ([^<]*) when
\* keep, and '' otherwise: leftmost matches, left to right
RECURSIVE SubWrapped(_, _, _, _)
SubWrapped(s, opens, close, keep) ==
    IF s = <<>> THEN <<>>
    ELSE LET n == RunLen(Tail(s), NotLt, Len(s))
         IN  IF Head(s) \in opens /\ Len(s) >= n + 2 /\ s[n + 2] = close
             THEN (IF keep THEN SubSeq(s, 2, n + 1) ELSE <<>>)
                  \o SubWrapped(SubSeq(s, n + 3, Len(s)), opens, close, keep)
             ELSE <<Head(s)>> \o SubWrapped(Tail(s), opens, close, keep)

\* re.sub(r'</?[a-z][^>]*>', '', s)
StripTags(s) == SelectSeq(s, LAMBDA e : e \notin Tags)

\* the cleaning of one citation's content (both extractors)
CleanCitation(raw) ==
    LET c1 == SubWrapped(raw, {SpanRefSource}, SpanClose, FALSE)
        c2 == SubWrapped(c1, {SpanOccurrence}, SpanClose, FALSE)
        c3 == SubWrapped(c2, {AOpen}, AClose, TRUE)
        c4 == SubWrapped(c3, {EmOpen}, EmClose, TRUE)
        c5 == SubWrapped(c4, SpanOpens, SpanClose, TRUE)
        c6 == StripTags(c5)
        c7 == Strip(CollapseSpace(c6))
    IN  HtmlUnescape(c7)

\* a source document: the text of its h1 ChapterTitle, its citation divs
\* (id "CR<digits>" and content) and the contents of its Keyword spans
SrcDoc(title, cits, kws) ==
    [exists |-> TRUE, title |-> title, cits |-> cits, kws |-> kws]

\* no source file of that number
NoSrc == [exists |-> FALSE, title |-> <<>>, cits |-> <<>>, kws |-> <<>>]

Cit(digits, raw) == [id |-> <<"C", "R">> \o digits, raw |-> raw]

\* extract_citations_with_regex: citations[cit_id] = clean_content
RECURSIVE CitationsById(_)
CitationsById(cits) ==
    IF cits = <<>> THEN <<>>
    ELSE LET c == cits[Len(cits)]
             rest == CitationsById(SubSeq(cits, 1, Len(cits) - 1))
         IN  IF \E i \in 1..Len(rest) : rest[i].id = c.id
             THEN [i \in 1..Len(rest) |->
                     IF rest[i].id = c.id
                     THEN [id |-> c.id, text |-> CleanCitation(c.raw)]
                     ELSE rest[i]]
             ELSE Append(rest, [id |-> c.id, text |-> CleanCitation(c.raw)])

\* extract_citations_from_xhtml: citations[int(digits)] = clean_content
RECURSIVE CitationsByNum(_)
CitationsByNum(cits) ==
    IF cits = <<>> THEN <<>>
    ELSE LET c == cits[Len(cits)]
             n == ToInt(SubSeq(c.id, 3, Len(c.id)), 10)
             rest == CitationsByNum(SubSeq(cits, 1, Len(cits) - 1))
         IN  IF \E i \in 1..Len(rest) : rest[i].num = n
             THEN [i \in 1..Len(rest) |->
                     IF rest[i].num = n
                     THEN [num |-> n, text |-> CleanCitation(c.raw)]
                     ELSE rest[i]]
             ELSE Append(rest, [num |-> n, text |-> CleanCitation(c.raw)])

\* dictionary lookups
HasId(d, id) == \E i \in 1..Len(d) : d[i].id = id

AtId(d, id) == d[CHOOSE i \in 1..Len(d) : d[i].id = id].text

HasNum(d, n) == \E i \in 1..Len(d) : d[i].num = n

AtNum(d, n) == d[CHOOSE i \in 1..Len(d) : d[i].num = n].text

\* extract_keywords_from_xhtml: [k.strip() for k in keywords if k.strip()]
ExtractKeywords(kws) ==
    LET stripped == [i \in 1..Len(kws) |-> Strip(kws[i])]
    IN  SelectSeq(stripped, LAMBDA k : k # <<>>)

(***************************************************************************)
(* Derivative (XML) documents: a sequence of segments.                     *)
(*   bibliomixed   <bibliomixed id="ID">TEXT</bibliomixed>                 *)
(*   para          <para>TEXT</para>                                       *)
(*   keywordset    <keywordset>\n      <keyword>K</keyword>\n ...          *)
(*                    </keywordset>     (kws holds the K's as written)     *)
(*   chaptertitle  <chaptertitle>TEXT</chaptertitle>                       *)
(*   text          TEXT, character data between elements                   *)
(*   indexterm     <indextermATTRS><primary>TEXT</primary></indexterm>     *)
(***************************************************************************)
Seg(k, id, text, kws) == [k |-> k, id |-> id, text |-> text, kws |-> kws]

Bib(id, text) == Seg("bibliomixed", id, text, <<>>)

Para(text) == Seg("para", <<>>, text, <<>>)

KeywordSet(kws) == Seg("keywordset", <<>>, <<>>, kws)

ChapterTitle(text) == Seg("chaptertitle", <<>>, text, <<>>)

Text(text) == Seg("text", <<>>, text, <<>>)

\* <indextermATTRS><primary>TEXT</primary></indexterm>: id holds ATTRS
Indexterm(attrs, text) == Seg("indexterm", attrs, text, <<>>)

\* a file of a directory: present with its stored text, or absent
File(doc) == [exists |-> TRUE, doc |-> doc]

NoFile == [exists |-> FALSE, doc |-> <<>>]

\* a byte that is no UTF-8: read() of a file holding it raises
\* UnicodeDecodeError
BadByte == "0xFF"

Decodable(doc) ==
    \A i \in 1..Len(doc) : \A j \in 1..Len(doc[i].text) : doc[i].text[j] # BadByte

\* open(path, 'r', encoding='utf-8').read() returns
Readable(file) == file.exists /\ Decodable(file.doc)

\* open(path, 'r', encoding='utf-8').read(): universal newlines turn
\* "\r\n" and "\r" into "\n"
RECURSIVE TranslateNewlines(_)
TranslateNewlines(s) ==
    IF s = <<>> THEN <<>>
    ELSE IF Head(s) = "\r"
         THEN <<"\n">> \o TranslateNewlines(
                  IF Len(s) >= 2 /\ s[2] = "\n" THEN SubSeq(s, 3, Len(s)) ELSE Tail(s))
         ELSE <<Head(s)>> \o TranslateNewlines(Tail(s))

ReadText(doc) ==
    [i \in 1..Len(doc) |->
        [doc[i] EXCEPT !.text = TranslateNewlines(@),
                       !.kws = [j \in 1..Len(@) |-> TranslateNewlines(@[j])]]]

(***************************************************************************)
(* Bibliography repair.                                                    *)
(***************************************************************************)
\* re.finditer(r'<bibliomixed id="([^"]+)">([^<]*)</bibliomixed>', content):
\* the positions of the entries the pattern matches, in order
BibMatches(content) ==
    SelectSeq([i \in 1..Len(content) |-> i],
              LAMBDA i : /\ content[i].k = "bibliomixed"
                         /\ content[i].id # <<>>
                         /\ \A j \in 1..Len(content[i].id) : content[i].id[j] # "\""
                         /\ \A j \in 1..Len(content[i].text) : content[i].text[j] # "<")

\* re.search(r'bib(\d+)$', bib_id): the digits, <<>> when there is no match
BibDigits(id) ==
    LET n == CHOOSE m \in 0..Len(id) :
                 /\ \A j \in (Len(id) - m + 1)..Len(id) : id[j] \in Digit
                 /\ (m < Len(id) => id[Len(id) - m] \notin Digit)
    IN  IF n >= 1 /\ Len(id) >= n + 3
           /\ SubSeq(id, Len(id) - n - 2, Len(id) - n) = <<"b", "i", "b">>
        THEN SubSeq(id, Len(id) - n + 1, Len(id))
        ELSE <<>>

\* content.replace(old, new, 1): the first literal occurrence only
ReplaceFirst(content, old, new) ==
    IF \E i \in 1..Len(content) : content[i] = old
    THEN LET i == CHOOSE j \in 1..Len(content) :
                      content[j] = old /\ \A h \in 1..(j - 1) : content[h] # old
         IN  [content EXCEPT ![i] = new]
    ELSE content

\* content.replace(old, new): every literal occurrence
ReplaceAll(content, old, new) ==
    [i \in 1..Len(content) |-> IF content[i] = old THEN new ELSE content[i]]

\* len(current) < len(full) * 0.7
ThresholdNum == 7

ThresholdDen == 10

Truncated(current, full) == ThresholdDen * Len(current) < ThresholdNum * Len(full)

PreviewLen == 100

\* s[:100] + '...' if len(s) > 100 else s
Preview(s) ==
    IF Len(s) > PreviewLen THEN SubSeq(s, 1, PreviewLen) \o <<".", ".", ".">> ELSE s

\* possible_ids = [f"CR{n}", f"CR{n:02d}", f"CR{n:03d}"]
PossibleIds(n) ==
    <<(<<"C", "R">> \o NatToStr(n)), (<<"C", "R">> \o Padded(n, 2)),
      (<<"C", "R">> \o Padded(n, 3))>>

\* the citation fix_bibliography_content looks an entry up under: the first
\* of the possible ids that is in citations; [found |-> FALSE] when none is
LookupById(citations, n) ==
    LET ids == PossibleIds(n)
        hit == {k \in 1..3 : HasId(citations, ids[k])}
    IN  IF hit = {} THEN [found |-> FALSE, text |-> <<>>]
        ELSE [found |-> TRUE,
              text |-> AtId(citations, ids[CHOOSE k \in hit : \A h \in hit : k <= h])]

LookupByNum(citations, n) ==
    IF HasNum(citations, n) THEN [found |-> TRUE, text |-> AtNum(citations, n)]
    ELSE [found |-> FALSE, text |-> <<>>]

\* one step of the loop over matches in fix_bibliography_content.
\* acc = [content, fixes]; a fix records bib_id, original, restored, and
\* (for the properties) the whole texts: old, full.
ContentStep(acc, m, citations) ==
    LET digits == BibDigits(m.id)
        c == LookupById(citations, ToInt(digits, 10))
    IN  IF digits # <<>> /\ c.found /\ Truncated(m.text, c.text)
        THEN [content |-> ReplaceFirst(acc.content, m, Bib(m.id, HtmlEscape(c.text))),
              fixes |-> Append(acc.fixes,
                               [bib_id |-> m.id, original |-> Preview(m.text),
                                restored |-> Preview(c.text),
                                old |-> m.text, full |-> c.text])]
        ELSE acc

RECURSIVE ContentLoop(_, _, _)
ContentLoop(acc, ms, citations) ==
    IF ms = <<>> THEN acc
    ELSE ContentLoop(ContentStep(acc, Head(ms), citations), Tail(ms), citations)

\* fix_bibliography_content(xml_content, citations, chapter_info)
\*   -> [content |-> fixed_content, fixes |-> fixes_made]
FixBibliographyContent(xml_content, citations) ==
    LET ms == BibMatches(xml_content)
    IN  ContentLoop([content |-> xml_content, fixes |-> <<>>],
                    [i \in 1..Len(ms) |-> xml_content[ms[i]]], citations)

\* one step of the loop over matches in fix_bibliography_file
FileStep(acc, m, citations) ==
    LET digits == BibDigits(m.id)
        c == LookupByNum(citations, ToInt(digits, 10))
    IN  IF digits # <<>> /\ c.found /\ Truncated(Strip(m.text), c.text)
        THEN [content |-> ReplaceFirst(acc.content, m, Bib(m.id, HtmlEscape(c.text))),
              fixes |-> Append(acc.fixes,
                               [bib_id |-> m.id, original |-> Preview(m.text),
                                restored |-> Preview(c.text),
                                old |-> m.text, full |-> c.text])]
        ELSE acc

RECURSIVE FileLoop(_, _, _)
FileLoop(acc, ms, citations) ==
    IF ms = <<>> THEN acc
    ELSE FileLoop(FileStep(acc, Head(ms), citations), Tail(ms), citations)

\* fix_bibliography_file(xml_path, citations), on the file's stored text:
\*   [content |-> the file afterwards, fixes |-> the rewritten entries]
\* (the function returns Len(fixes); the file is written when it is > 0)
FixBibliographyFile(stored, citations) ==
    LET content == ReadText(stored)
        ms == BibMatches(content)
        r == FileLoop([content |-> content, fixes |-> <<>>],
                      [i \in 1..Len(ms) |-> content[ms[i]]], citations)
    IN  IF Len(r.fixes) > 0 THEN r ELSE [content |-> stored, fixes |-> <<>>]

(***************************************************************************)
(* The document as the one string the scripts read: used for the tests     *)
(* the code makes on the whole content.                                    *)
(***************************************************************************)
S_bibliomixed == <<"<", "b", "i", "b", "l", "i", "o", "m", "i", "x", "e", "d">>

S_para == <<"<", "p", "a", "r", "a", ">">>

S_keywordset == <<"<", "k", "e", "y", "w", "o", "r", "d", "s", "e", "t", ">">>

S_keyword == <<"<", "k", "e", "y", "w", "o", "r", "d", ">">>

S_chaptertitle == <<"<", "c", "h", "a", "p", "t", "e", "r", "t", "i", "t", "l", "e", ">">>

S_indexterm == <<"<", "i", "n", "d", "e", "x", "t", "e", "r", "m">>

S_primary == <<"<", "p", "r", "i", "m", "a", "r", "y", ">">>

\* "</" and the rest of an opening tag
CloseOf(open) == <<"<", "/">> \o Tail(open)

Indent(n) == Rep(" ", n)

RenderSeg(g) ==
    CASE g.k = "bibliomixed" ->
           S_bibliomixed \o <<" ", "i", "d", "=", "\"">> \o g.id \o <<"\"", ">">>
           \o g.text \o CloseOf(S_bibliomixed \o <<">">>)
      [] g.k = "para" -> S_para \o g.text \o CloseOf(S_para)
      [] g.k = "keywordset" ->
           S_keywordset \o <<"\n">>
           \o Concat([i \in 1..Len(g.kws) |->
                        Indent(6) \o S_keyword \o g.kws[i] \o CloseOf(S_keyword) \o <<"\n">>])
           \o Indent(3) \o CloseOf(S_keywordset)
      [] g.k = "chaptertitle" -> S_chaptertitle \o g.text \o CloseOf(S_chaptertitle)
      [] g.k = "indexterm" ->
           S_indexterm \o g.id \o <<">">> \o S_primary \o g.text \o CloseOf(S_primary)
           \o CloseOf(S_indexterm \o <<">">>)
      [] g.k = "text" -> g.text

Render(doc) == Concat([i \in 1..Len(doc) |-> RenderSeg(doc[i])])

(***************************************************************************)
(* Keyword repair: the patterns.  Under re.IGNORECASE a letter class       *)
(* matches both cases.                                                     *)
(***************************************************************************)
Letter == Lower \cup Upper

Ws == Cls(Space)

\* [a-z0-9_.+-]+\s*@\s*[a-z0-9-]+\.\s*[a-z]+\s+[A-Z][a-z-]+(\s+[A-Z][a-z-]+)+
\* with re.IGNORECASE (find_garbled_keywords_files)
DetectPattern ==
    LET word == Cat(<<Cls(Letter), Plus(Cls(Letter \cup {"-"}))>>)
    IN  Cat(<<Plus(Cls(Letter \cup Digit \cup {"_", ".", "+", "-"})),
              Star(Ws), Cls({"@"}), Star(Ws),
              Plus(Cls(Letter \cup Digit \cup {"-"})), Cls({"."}), Star(Ws),
              Plus(Cls(Letter)), Plus(Ws), word,
              Plus(Cat(<<Plus(Ws), word>>))>>)

\* ([a-z0-9_. +-]+@[a-z0-9-]+\.\s*[a-z]+\s+[A-Z][a-z-]+(?:\s+[A-Za-z-]+)*)
\* with re.IGNORECASE (fix_keywords_in_file)
RepairPattern ==
    Cat(<<Plus(Cls(Letter \cup Digit \cup {"_", ".", " ", "+", "-"})),
          Cls({"@"}),
          Plus(Cls(Letter \cup Digit \cup {"-"})), Cls({"."}), Star(Ws),
          Plus(Cls(Letter)), Plus(Ws),
          Cls(Letter), Plus(Cls(Letter \cup {"-"})),
          Star(Cat(<<Plus(Ws), Plus(Cls(Letter \cup {"-"}))>>))>>)

\* ([^<]*@[^<]*\.(edu|com|org)[^<]*
\*    (?:Depression|Dysthymia|Mood|Assessment|Anxiety|Disorder)[^<]*)
\* case sensitive (fix_keywords_section)
TopLevelDomains == <<Lit(<<"e", "d", "u">>), Lit(<<"c", "o", "m">>), Lit(<<"o", "r", "g">>)>>

SectionPattern ==
    Cat(<<Star(Cls(NotLt)), Cls({"@"}), Star(Cls(NotLt)), Cls({"."}),
          Alt(TopLevelDomains), Star(Cls(NotLt)),
          Alt(<<Lit(<<"D", "e", "p", "r", "e", "s", "s", "i", "o", "n">>),
                Lit(<<"D", "y", "s", "t", "h", "y", "m", "i", "a">>),
                Lit(<<"M", "o", "o", "d">>),
                Lit(<<"A", "s", "s", "e", "s", "s", "m", "e", "n", "t">>),
                Lit(<<"A", "n", "x", "i", "e", "t", "y">>),
                Lit(<<"D", "i", "s", "o", "r", "d", "e", "r">>)>>),
          Star(Cls(NotLt))>>)

\* ([a-z0-9_. +-]+@[a-z0-9_ -]+\.\s*[a-z]+)\s+([A-Z][A-Za-z -]+(?:\s+[A-Za-z -]+)*)
\* with re.IGNORECASE (fix_all_garbled_keywords, 'full')
FullPattern ==
    Cat(<<Plus(Cls(Letter \cup Digit \cup {"_", ".", " ", "+", "-"})),
          Cls({"@"}),
          Plus(Cls(Letter \cup Digit \cup {"_", " ", "-"})), Cls({"."}), Star(Ws),
          Plus(Cls(Letter)), Plus(Ws),
          Cls(Letter), Plus(Cls(Letter \cup {" ", "-"})),
          Star(Cat(<<Plus(Ws), Plus(Cls(Letter \cup {" ", "-"}))>>))>>)

\* ([^<]+@[^<]+)  (fix_all_garbled_keywords, 'simple')
SimplePattern == Cat(<<Plus(Cls(NotLt)), Cls({"@"}), Plus(Cls(NotLt))>>)

\* re.search(r'<para>' + pattern + r'</para>', content): the position of the
\* leftmost paragraph the pattern matches, 0 when there is none
SearchPara(content, pattern) ==
    LET hit == {i \in 1..Len(content) :
                   content[i].k = "para" /\ FullMatch(pattern, content[i].text)}
    IN  IF hit = {} THEN 0 ELSE CHOOSE i \in hit : \A j \in hit : i <= j

\* keywords_xml: one <keyword> per keyword, html.escape applied
KeywordsXml(keywords) ==
    KeywordSet([i \in 1..Len(keywords) |-> HtmlEscape(keywords[i])])

\* fix_keywords_in_file(xml_file, keywords), on the file's stored text
FixKeywordsInFile(stored, keywords) ==
    LET content == ReadText(stored)
        m == SearchPara(content, RepairPattern)
    IN  IF m # 0 /\ keywords # <<>>
        THEN [content |-> ReplaceFirst(content, content[m], KeywordsXml(keywords)),
              fixed |-> TRUE, original |-> Preview(content[m].text)]
        ELSE [content |-> stored, fixed |-> FALSE, original |-> <<>>]

\* fix_keywords_section(xml_content, keywords, chapter_info)
FixKeywordsSection(xml_content, keywords) ==
    LET m == SearchPara(xml_content, SectionPattern)
    IN  IF m # 0 /\ keywords # <<>>
        THEN [content |-> ReplaceAll(xml_content, xml_content[m], KeywordsXml(keywords)),
              fixed |-> TRUE, original |-> Preview(xml_content[m].text)]
        ELSE [content |-> xml_content, fixed |-> FALSE, original |-> <<>>]

\* find_garbled_keywords_files: the test made on one file
IsGarbled(stored) == SearchPara(ReadText(stored), DetectPattern) # 0

(***************************************************************************)
(* File names and the chapter mapping.                                     *)
(***************************************************************************)
S_sect ==
    <<"s", "e", "c", "t", "1", ".", "9", "7", "8", "1", "0", "7", "1", "6", "4", "3",
      "6", "2", "4", ".", "c", "h">>

S_xml == <<".", "x", "m", "l">>

\* sect1.9781071643624.ch{ch:04d}s{sec:04d}.xml
XmlName(ch, sec) == S_sect \o Padded(ch, 4) \o <<"s">> \o Padded(sec, 4) \o S_xml

\* a file of the derivative corpus that belongs to no chapter
TocName == <<"t", "o", "c">> \o S_xml

\* re.search(r'ch(\d+)', name): the digits of the leftmost match, <<>> if none
ChapterDigits(name) ==
    LET at == {i \in 1..(Len(name) - 2) :
                  name[i] = "c" /\ name[i + 1] = "h" /\ name[i + 2] \in Digit}
    IN  IF at = {} THEN <<>>
        ELSE LET i == CHOOSE j \in at : \A h \in at : j <= h
                 rest == SubSeq(name, i + 2, Len(name))
             IN  SubSeq(rest, 1, RunLen(rest, Digit, Len(rest)))

\* Path.glob(f"sect1.9781071643624.ch{chapter_id:04d}s*.xml")
GlobSect(name, chapter_id) ==
    LET pre == S_sect \o Padded(chapter_id, 4) \o <<"s">>
    IN  /\ Len(name) >= Len(pre) + Len(S_xml)
        /\ SubSeq(name, 1, Len(pre)) = pre
        /\ SubSeq(name, Len(name) - Len(S_xml) + 1, Len(name)) = S_xml

\* xhtml_chapter = xml_chapter - 2
ChapterOffset == 2

\* get_xhtml_chapter_file(xml_chapter): the number of the source file
\* *_{xml_chapter - 2}_Chapter.xhtml, or 0 when there is none
GetXhtmlChapterFile(source, xml_chapter) ==
    LET n == xml_chapter - ChapterOffset
    IN  IF n \in DOMAIN source /\ source[n].exists THEN n ELSE 0

\* get_xhtml_file_for_chapter(title_chapter_num)
GetXhtmlFileForChapter(source, title_chapter_num) ==
    IF title_chapter_num \in DOMAIN source /\ source[title_chapter_num].exists
    THEN title_chapter_num ELSE 0

\* the leading (\d+)\. of a title text: the digits, <<>> if none
LeadingNumber(text) ==
    LET n == RunLen(text, Digit, Len(text))
    IN  IF n >= 1 /\ Len(text) > n /\ text[n + 1] = "." THEN SubSeq(text, 1, n) ELSE <<>>

\* re.search(r'<chaptertitle>(\d+)\.', content): the digits of the leftmost
\* match, <<>> if none
TitleDigits(content) ==
    LET hit == {i \in 1..Len(content) :
                   content[i].k = "chaptertitle" /\ LeadingNumber(content[i].text) # <<>>}
    IN  IF hit = {} THEN <<>>
        ELSE LeadingNumber(content[CHOOSE i \in hit : \A j \in hit : i <= j].text)

\* '<bibliography' in content or '<bibliomixed' in content
HasBibliography(content) ==
    \/ Contains(Render(content), <<"<", "b", "i", "b", "l", "i", "o", "g", "r", "a", "p", "h", "y">>)
    \/ Contains(Render(content), S_bibliomixed)

(***************************************************************************)
(* The corpus: the source directory (source file number -> document), the  *)
(* pristine derivative directory XML_DIR and the output tree OUTPUT_DIR    *)
(* (file name -> file).                                                    *)
(***************************************************************************)
SrcNums == {6, 9}

\* sorted(Path(XHTML_DIR).glob('*_Chapter.xhtml')), by file number
SrcSeq == <<6, 9>>

Files == {XmlName(8, 1), XmlName(8, 2), XmlName(11, 1)}

\* sorted(Path(...).glob('*.xml'))
FileSeq == <<XmlName(8, 1), XmlName(8, 2), XmlName(11, 1)>>

\* the per-file results of a loop over FileSeq, gathered:
\* step[f] = [file |-> the file afterwards, fixes |-> its fix records]
Gather(files, step) ==
    [tree |-> [f \in Files |-> step[f].file],
     fixes |-> Concat([i \in 1..Len(files) |-> step[files[i]].fixes])]

Fix(kind, f, n, count) == [kind |-> kind, file |-> f, n |-> n, count |-> count]

(***************************************************************************)
(* fix_remaining_bibliography.py: main().                                  *)
(***************************************************************************)
RemainingBibliographyFile(tree, source, f) ==
    LET content == ReadText(tree[f].doc)
        digits == TitleDigits(content)
        n == GetXhtmlFileForChapter(source, ToInt(digits, 10))
        citations == CitationsByNum(source[n].cits)
        r == FixBibliographyFile(tree[f].doc, citations)
    IN  IF /\ Readable(tree[f])
           /\ HasBibliography(content)
           /\ digits # <<>>
           /\ n # 0
           /\ citations # <<>>
           /\ Len(r.fixes) > 0
        THEN [file |-> File(r.content),
              fixes |-> <<Fix("bibliography", f, n, Len(r.fixes))>>]
        ELSE [file |-> tree[f], fixes |-> <<>>]

FixRemainingBibliographyMain(tree, source) ==
    Gather(FileSeq, [f \in Files |-> RemainingBibliographyFile(tree, source, f)])

(***************************************************************************)
(* fix_keywords.py: main().                                                *)
(***************************************************************************)
\* find_garbled_keywords_files(): the files of the output tree that test
\* garbled, in sorted order
FindGarbledKeywordsFiles(tree) ==
    SelectSeq(FileSeq, LAMBDA f : Readable(tree[f]) /\ IsGarbled(tree[f].doc))

KeywordsFile(tree, source, f) ==
    LET digits == ChapterDigits(f)
        xml_ch == ToInt(digits, 10)
        n == GetXhtmlChapterFile(source, xml_ch)
        keywords == ExtractKeywords(source[n].kws)
        r == FixKeywordsInFile(tree[f].doc, keywords)
    IN  IF /\ Readable(tree[f])
           /\ IsGarbled(tree[f].doc)
           /\ digits # <<>> /\ xml_ch # 0
           /\ n # 0
           /\ keywords # <<>>
           /\ r.fixed
        THEN [file |-> File(r.content), fixes |-> <<Fix("keywords", f, n, 1)>>]
        ELSE [file |-> tree[f], fixes |-> <<>>]

FixKeywordsMain(tree, source) ==
    Gather(FileSeq, [f \in Files |-> KeywordsFile(tree, source, f)])

(***************************************************************************)
(* fix_all_keywords.py: fix_all_garbled_keywords().                        *)
(***************************************************************************)
AllKeywordsFile(tree, source, f) ==
    LET content == ReadText(tree[f].doc)
        full == SearchPara(content, FullPattern)
        m == IF full # 0 THEN full ELSE SearchPara(content, SimplePattern)
        digits == ChapterDigits(f)
        n == GetXhtmlChapterFile(source, ToInt(digits, 10))
        keywords == ExtractKeywords(source[n].kws)
    IN  IF /\ Readable(tree[f])
           /\ Contains(Render(content), <<"@">>)
           /\ ~Contains(Render(content), S_keywordset)
           /\ m # 0
           /\ digits # <<>>
           /\ n # 0
           /\ keywords # <<>>
        THEN [file |-> File(ReplaceFirst(content, content[m], KeywordsXml(keywords))),
              fixes |-> <<Fix("keywords", f, n, 1)>>]
        ELSE [file |-> tree[f], fixes |-> <<>>]

FixAllGarbledKeywords(tree, source) ==
    Gather(FileSeq, [f \in Files |-> AllKeywordsFile(tree, source, f)])

(***************************************************************************)
(* fix_content_loss.py: process_all_chapters().                            *)
(***************************************************************************)
\* return m['title_ch_num'] + 2
TitleOffset == 2

\* get_xml_chapter_id_for_xhtml(xhtml_num, mappings); the mapping entry of a
\* source file holds the leading number of its h1 ChapterTitle
GetXmlChapterIdForXhtml(source, xhtml_num) ==
    LET digits == LeadingNumber(source[xhtml_num].title)
        title_ch_num == ToInt(digits, 10)
    IN  IF digits # <<>> /\ title_ch_num # 0 THEN title_ch_num + TitleOffset
        ELSE xhtml_num

\* the files of XML_DIR that glob sect1.9781071643624.ch{id:04d}s*.xml, sorted
ChapterFiles(xmltree, chapter_id) ==
    SelectSeq(FileSeq, LAMBDA f : xmltree[f].exists /\ GlobSect(f, chapter_id))

\* find_xml_bibliography_file(chapter_id): from the highest section down, the
\* first file that holds a bibliography; <<>> when there is none
FindXmlBibliographyFile(xmltree, chapter_id) ==
    LET fs == ChapterFiles(xmltree, chapter_id)
        hit == {i \in 1..Len(fs) : /\ Decodable(xmltree[fs[i]].doc)
                                    /\ HasBibliography(ReadText(xmltree[fs[i]].doc))}
    IN  IF hit = {} THEN <<>> ELSE fs[CHOOSE i \in hit : \A j \in hit : j <= i]

\* re.search(r'@.*\.(edu|com|org)', content)
AnyChar == (Chars \cup {"="}) \ {"\n"}

EmailInContent ==
    Cat(<<Cls({"@"}), Star(Cls(AnyChar)), Cls({"."}), Alt(TopLevelDomains)>>)

\* re.search(r'Depression|Anxiety|Disorder|Symptom|Assessment', content)
TopicInContent ==
    Alt(<<Lit(<<"D", "e", "p", "r", "e", "s", "s", "i", "o", "n">>),
          Lit(<<"A", "n", "x", "i", "e", "t", "y">>),
          Lit(<<"D", "i", "s", "o", "r", "d", "e", "r">>),
          Lit(<<"S", "y", "m", "p", "t", "o", "m">>),
          Lit(<<"A", "s", "s", "e", "s", "s", "m", "e", "n", "t">>)>>)

\* find_xml_keywords_file(chapter_id): the first file, in sorted order, whose
\* content holds an e-mail address and a topic word; <<>> when there is none
FindXmlKeywordsFile(xmltree, chapter_id) ==
    LET fs == ChapterFiles(xmltree, chapter_id)
        hit == {i \in 1..Len(fs) :
                   LET c == Render(ReadText(xmltree[fs[i]].doc))
                   IN  /\ Decodable(xmltree[fs[i]].doc)
                       /\ Search(EmailInContent, c) /\ Search(TopicInContent, c)}
    IN  IF hit = {} THEN <<>> ELSE fs[CHOOSE i \in hit : \A j \in hit : i <= j]

\* the orders Path(XML_DIR).glob('*.xml') may yield the files in (the
\* loop does not sort them); the order shows only when a read raises
GlobOrders(xmltree) ==
    IF \A f \in Files : xmltree[f].exists => Decodable(xmltree[f].doc)
    THEN {FileSeq}
    ELSE {order \in [1..Len(FileSeq) -> Files] :
             \A f \in Files : \E i \in 1..Len(FileSeq) : order[i] = f}

\* the copy of every file of XML_DIR into OUTPUT_DIR (read as text, written
\* as text), in the given order; nothing catches the error of a read, so
\* the loop ends at the first file that does not decode:
\*   [tree |-> the output tree, aborted |-> the loop raised]
CopyThrough(xmltree, tree, order) ==
    LET bad == {i \in 1..Len(order) :
                   xmltree[order[i]].exists /\ ~Decodable(xmltree[order[i]].doc)}
        stop == IF bad = {} THEN Len(order) + 1
                ELSE CHOOSE i \in bad : \A j \in bad : i <= j
        copied == {order[i] : i \in 1..(stop - 1)}
    IN  [tree |-> [f \in Files |->
                      IF f \in copied /\ xmltree[f].exists
                      THEN File(ReadText(xmltree[f].doc)) ELSE tree[f]],
         aborted |-> bad # {}]

\* if bib_fixes: write fixed_content, extend fixes_applied
BibliographyWrite(acc, bib_file, b, xhtml_ch) ==
    IF Len(b.fixes) > 0
    THEN [tree |-> [acc.tree EXCEPT ![bib_file] = File(b.content)],
          fixes |-> Append(acc.fixes, Fix("bibliography", bib_file, xhtml_ch, Len(b.fixes)))]
    ELSE acc

\* if bib_file: read the output copy, fix_bibliography_content
BibliographyPart(acc, bib_file, citations, xhtml_ch) ==
    IF bib_file = <<>> THEN acc
    ELSE BibliographyWrite(acc, bib_file,
             FixBibliographyContent(ReadText(acc.tree[bib_file].doc), citations), xhtml_ch)

\* if kw_fixes: write fixed_content, extend fixes_applied
KeywordsWrite(acc, kw_file, k, xhtml_ch) ==
    IF k.fixed
    THEN [tree |-> [acc.tree EXCEPT ![kw_file] = File(k.content)],
          fixes |-> Append(acc.fixes, Fix("keywords", kw_file, xhtml_ch, 1))]
    ELSE acc

\* if kw_file and keywords: read the output copy, fix_keywords_section
KeywordsPart(acc, kw_file, keywords, xhtml_ch) ==
    IF kw_file = <<>> \/ keywords = <<>> THEN acc
    ELSE KeywordsWrite(acc, kw_file,
             FixKeywordsSection(ReadText(acc.tree[kw_file].doc), keywords), xhtml_ch)

\* the two repairs of one source chapter, on the files of xml_ch_id
ChapterParts(xmltree, acc, citations, keywords, xml_ch_id, xhtml_ch) ==
    KeywordsPart(BibliographyPart(acc, FindXmlBibliographyFile(xmltree, xml_ch_id),
                                  citations, xhtml_ch),
                 FindXmlKeywordsFile(xmltree, xml_ch_id), keywords, xhtml_ch)

\* if not citations and not keywords: continue
ChapterData(xmltree, source, acc, citations, keywords, xhtml_ch) ==
    IF citations = <<>> /\ keywords = <<>> THEN acc
    ELSE ChapterParts(xmltree, acc, citations, keywords,
                      GetXmlChapterIdForXhtml(source, xhtml_ch), xhtml_ch)

\* the body of the loop over the source chapters, for source file xhtml_ch;
\* acc = [tree, fixes]
ChapterStep(xmltree, source, acc, xhtml_ch) ==
    IF ~source[xhtml_ch].exists THEN acc
    ELSE ChapterData(xmltree, source, acc, CitationsById(source[xhtml_ch].cits),
                     ExtractKeywords(source[xhtml_ch].kws), xhtml_ch)

RECURSIVE ChapterLoop(_, _, _, _)
ChapterLoop(xmltree, source, acc, chapters) ==
    IF chapters = <<>> THEN acc
    ELSE ChapterLoop(xmltree, source,
                     ChapterStep(xmltree, source, acc, Head(chapters)), Tail(chapters))

\* process_all_chapters(), the copy loop taking the files in the given
\* order: [tree, fixes, aborted]
ProcessAllChapters(xmltree, tree, source, order) ==
    LET c == CopyThrough(xmltree, tree, order)
        r == ChapterLoop(xmltree, source, [tree |-> c.tree, fixes |-> <<>>], SrcSeq)
    IN  IF c.aborted THEN [tree |-> c.tree, fixes |-> <<>>, aborted |-> TRUE]
        ELSE [tree |-> r.tree, fixes |-> r.fixes, aborted |-> FALSE]

(***************************************************************************)
(* fix_content_loss.py: verify_indexterm_fixes().                          *)
(***************************************************************************)
\* re.finditer(r'<indexterm[^>]*>\s*<primary>([^<]+)</primary>\s*</indexterm>'):
\* the positions of the markers the pattern matches, in order
IndextermMatches(content) ==
    SelectSeq([i \in 1..Len(content) |-> i],
              LAMBDA i : /\ content[i].k = "indexterm"
                         /\ \A j \in 1..Len(content[i].id) : content[i].id[j] # ">"
                         /\ content[i].text # <<>>
                         /\ \A j \in 1..Len(content[i].text) : content[i].text[j] # "<")

\* full_match[:20]
PrefixLen == 20

\* content[max(0, match.start()-50):match.start()]
ContextLen == 50

\* re.escape(indexterm_text) + r'\s*' + re.escape(full_match)
ExpectedPattern(indexterm_text, full_match) ==
    Cat(<<Lit(indexterm_text), Star(Ws), Lit(full_match)>>)

\* r'<para[^>]*>\s*' + re.escape(indexterm_text) + r'\s*'
\*   + re.escape(full_match[:20])
StartOfParaPattern(indexterm_text, full_match) ==
    Cat(<<Lit(SubSeq(S_para, 1, 5)), Star(Cls(Chars \ {">"})), Cls({">"}), Star(Ws),
          Lit(indexterm_text), Star(Ws),
          Lit(SubSeq(full_match, 1, Min(PrefixLen, Len(full_match))))>>)

\* the issue recorded for the match at position i of content, <<>> when the
\* content passes both searches; at: the position (for the properties)
IndextermIssue(f, content, rendered, i) ==
    IF \/ Search(ExpectedPattern(content[i].text, RenderSeg(content[i])), rendered)
       \/ Search(StartOfParaPattern(content[i].text, RenderSeg(content[i])), rendered)
    THEN <<>>
    ELSE LET start == Len(Render(SubSeq(content, 1, i - 1)))
         IN  <<[file |-> f, text |-> content[i].text,
                context |-> SubSeq(rendered, start - Min(start, ContextLen) + 1, start),
                at |-> i]>>

\* a variant that writes every file back as it was read
VerifyFileWritingBack(tree, f) ==
    LET content == ReadText(tree[f].doc)
        ms == IndextermMatches(content)
    IN  [file |-> IF Readable(tree[f]) THEN File(content) ELSE tree[f],
         fixes |-> IF Readable(tree[f])
                   THEN Concat([k \in 1..Len(ms) |->
                                  IndextermIssue(f, content, Render(content), ms[k])])
                   ELSE <<>>]

\* the body of the loop over the files: the file is read, never written
VerifyFile(tree, f) ==
    LET content == ReadText(tree[f].doc)
        ms == IndextermMatches(content)
    IN  [file |-> tree[f],
         fixes |-> IF Readable(tree[f])
                   THEN Concat([k \in 1..Len(ms) |->
                                  IndextermIssue(f, content, Render(content), ms[k])])
                   ELSE <<>>]

\* verify_indexterm_fixes(): [tree |-> the output tree afterwards,
\*                            fixes |-> indexterm_issues]
VerifyIndextermFixes(tree) ==
    Gather(FileSeq, [f \in Files |-> VerifyFile(tree, f)])

\* if indexterm_issues: issues_found['indexterm_issues'] = indexterm_issues
RecordIndextermIssues(found, indexterm_issues) ==
    IF indexterm_issues # <<>>
    THEN [found EXCEPT !.indexterm_issues = indexterm_issues]
    ELSE found

(***************************************************************************)
(* Bounded inputs.                                                         *)
(***************************************************************************)
MaxPad == 1

MaxText == 2

MaxPieces == 2

MaxEntries == 2

MaxWords == 2

MaxKeywords == 2

\* all sequences of at most n elements of S
RECURSIVE SeqsUpTo(_, _)
SeqsUpTo(S, n) ==
    IF n = 0 THEN {<<>>}
    ELSE LET shorter == SeqsUpTo(S, n - 1)
         IN  shorter \cup {Append(q, e) : q \in shorter, e \in S}

\* entry texts: x's with blanks around them
EntryTexts ==
    {Rep(" ", l) \o Rep("x", n) \o Rep(" ", r) :
        l \in 0..MaxPad, n \in 0..MaxText, r \in 0..MaxPad}

\* citation contents: pieces of text, entities and markup
RawPieces ==
    {<<"x">>, <<"x", "x", "x">>, <<" ">>, <<"&", "a", "m", "p", ";">>,
     <<"&", "l", "t", ";">>, <<"&", "#", "3", "2", ";">>, <<EmOpen, "y", EmClose>>}

RawCitations == {Concat(q) : q \in SeqsUpTo(RawPieces, MaxPieces)}

BibId(digits) == <<"s", "9", "b", "i", "b">> \o digits

\* one entry, any citation content
EscapeCases ==
    {[doc |-> <<Bib(BibId(<<"1">>), t)>>,
      source |-> SrcDoc(<<>>, <<Cit(<<"1">>, raw)>>, <<>>)] :
        t \in {<<>>, <<"x">>, <<" ", "x", " ">>}, raw \in RawCitations}

\* one entry with blanks around its text, citations around the threshold
PadCases ==
    {[doc |-> <<Bib(BibId(<<"1">>), t)>>,
      source |-> SrcDoc(<<>>, <<Cit(<<"1">>, raw)>>, <<>>)] :
        t \in EntryTexts,
        raw \in {Rep("x", 2), Rep("x", 3), <<"x", "&", "#", "3", "2", ";">>,
                 <<"x", "x", "&", "a", "m", "p", ";">>}}

\* several entries, several spellings of the citation ids
StructEntries ==
    {Bib(id, t) : id \in {BibId(<<"1">>), BibId(<<"0", "1">>), BibId(<<"2">>)},
                  t \in {<<>>, <<"x", "x", "x">>}}

StructSources ==
    {<<>>,
     <<Cit(<<"1">>, Rep("x", 4))>>,
     <<Cit(<<"0", "1">>, Rep("x", 2)), Cit(<<"1">>, Rep("x", 4))>>,
     <<Cit(<<"1">>, Rep("x", 2)), Cit(<<"0", "1">>, Rep("x", 4))>>,
     <<Cit(<<"1">>, Rep("x", 4)), Cit(<<"1">>, Rep("x", 2))>>,
     <<Cit(<<"2">>, Rep("x", 4)), Cit(<<"0", "0", "1">>, Rep("x", 2))>>}

StructCases ==
    {[doc |-> d, source |-> SrcDoc(<<>>, c, <<>>)] :
        d \in SeqsUpTo(StructEntries, MaxEntries), c \in StructSources}

\* text around the entries, with either line ending; an entry may recur
FrameCases ==
    {[doc |-> <<Text(<<"a">> \o nl), Bib(BibId(<<"1">>), t), Text(<<"b">> \o nl)>> \o more,
      source |-> SrcDoc(<<>>, <<Cit(<<"1">>, Rep("x", 4))>>, <<>>)] :
        nl \in {<<"\n">>, <<"\r", "\n">>}, t \in {<<"x">>, Rep("x", 4)},
        more \in {<<>>, <<Bib(BibId(<<"1">>), <<"x">>)>>}}

\* an entry whose id ends in no number, before one that does
SuffixCases ==
    {[doc |-> <<Bib(id, <<"x">>), Bib(BibId(<<"1">>), t)>>,
      source |-> SrcDoc(<<>>, <<Cit(<<"1">>, Rep("x", 4))>>, <<>>)] :
        id \in {<<"r", "e", "f">>, BibId(<<>>), BibId(<<"1", "a">>)},
        t \in {<<"x">>, Rep("x", 4)}}

BibCases == EscapeCases \cup PadCases \cup StructCases \cup FrameCases \cup SuffixCases

\* a paragraph "local @ domain . tld" + tail, blanks where the flags say
Blank(b) == IF b THEN <<" ">> ELSE <<>>

Email(b1, b2, b3, b4) ==
    <<"a", "l">> \o Blank(b1) \o <<"@">> \o Blank(b2) \o <<"u", "c">> \o Blank(b3)
    \o <<".">> \o Blank(b4) \o <<"e", "d", "u">>

W_Mood == <<"M", "o", "o", "d">>

W_Sad == <<"S", "a", "d">>

W_for == <<"f", "o", "r">>

\* " w1 w2 ..." for the words of ws
RECURSIVE Words(_)
Words(ws) == IF ws = <<>> THEN <<>> ELSE <<" ">> \o Head(ws) \o Words(Tail(ws))

Tails == {Words(q) : q \in SeqsUpTo({W_Mood, W_Sad, W_for}, MaxWords)}

\* contents of Keyword spans
KeywordSpans ==
    SeqsUpTo({W_Mood, <<"A", "&", "a", "m", "p", ";", "B">>, <<" ">>}, MaxKeywords)

\* every placing of blanks in the e-mail address, keywords as in the source
BlankCases ==
    {[doc |-> <<Para(Email(b1, b2, b3, b4) \o Words(<<W_Mood, W_Sad>>))>>,
      source |-> SrcDoc(<<>>, <<>>, <<W_Mood, W_Sad>>)] :
        b1 \in BOOLEAN, b2 \in BOOLEAN, b3 \in BOOLEAN, b4 \in BOOLEAN}

\* what may stand before the paragraph
Prefixes ==
    {<<>>, <<KeywordSet(<<W_Sad>>)>>,
     <<Para(Email(FALSE, FALSE, FALSE, FALSE) \o Words(<<W_Mood, W_Sad>>))>>}

\* the words after the address vary
TailCases ==
    {[doc |-> pre \o <<Para(Email(FALSE, FALSE, FALSE, b4) \o tail)>>,
      source |-> SrcDoc(<<>>, <<>>, <<W_Mood, W_Sad>>)] :
        pre \in Prefixes, b4 \in BOOLEAN, tail \in Tails}

\* the keywords of the source vary
SpanCases ==
    {[doc |-> pre \o <<Para(Email(FALSE, FALSE, FALSE, b4) \o Words(<<W_Mood, W_Sad>>))>>,
      source |-> SrcDoc(<<>>, <<>>, kws)] :
        pre \in Prefixes, b4 \in BOOLEAN, kws \in KeywordSpans}

KwCases == BlankCases \cup TailCases \cup SpanCases

W_Term == <<"T", "e", "r", "m">>

W_Other == <<"O", "t", "h", "e", "r">>

\* what may stand before an index marker
BeforeMarker ==
    {<<>>, <<Text(W_Term)>>, <<Text(W_Term \o <<" ">>)>>, <<Text(<<"x">>)>>,
     <<Text(<<"a", "\r", "\n">>)>>, <<Text(S_para)>>, <<Text(S_para \o W_Term)>>,
     <<Text(S_para \o <<"x", " ">> \o W_Term)>>}

\* one marker, or two: the second with the same or another primary text
IdxCases ==
    {[doc |-> b1 \o <<Indexterm(a, W_Term)>> \o rest,
      source |-> SrcDoc(<<>>, <<>>, <<>>)] :
        b1 \in BeforeMarker, a \in {<<>>, <<" ", "x">>},
        rest \in {<<>>} \cup {b2 \o <<Indexterm(<<>>, t)>> :
                                b2 \in BeforeMarker, t \in {W_Term, W_Other}}}

(***************************************************************************)
(* The repair functions applied to one file (XmlName(8, 1)) with the data  *)
(* of one source document (number 6).                                      *)
(***************************************************************************)
\* last: the latest operation, its arguments, the output tree it started
\* from, what it reported; again: the operation before it was the same one
\* on the same arguments; ran: the scripts run since the output tree was
\* last copied afresh from the derivative directory
Op(op, f, n, before, fixes) ==
    [op |-> op, file |-> f, n |-> n, before |-> before, fixes |-> fixes,
     again |-> last.op = op /\ last.file = f /\ last.n = n, ran |-> {},
     aborted |-> FALSE]

Run(op, before, fixes) ==
    [op |-> op, file |-> <<>>, n |-> 0, before |-> before, fixes |-> fixes,
     again |-> last.op = op,
     ran |-> IF op = "process_all_chapters" THEN {op} ELSE last.ran \cup {op},
     aborted |-> FALSE]

\* issues_found as the module starts with it
NoIssues ==
    [bibliography_truncated |-> <<>>, keywords_garbled |-> <<>>,
     indexterm_issues |-> <<>>, other_issues |-> <<>>]

\* no loop is shared among workers
Idle == [loop |-> "none", owner |-> <<>>, start |-> <<>>, w |-> <<>>]

NoOp == [op |-> "none", file |-> <<>>, n |-> 0, before |-> <<>>, fixes |-> <<>>,
         again |-> FALSE, ran |-> {}, aborted |-> FALSE]

InitOne(cases) ==
    \E c \in cases :
        /\ src = [n \in SrcNums |-> IF n = 6 THEN c.source ELSE NoSrc]
        /\ xml = [f \in Files |-> IF f = XmlName(8, 1) THEN File(c.doc) ELSE NoFile]
        /\ out = xml
        /\ last = NoOp
        /\ issues_found = NoIssues
        /\ work = Idle

InitBib == InitOne(BibCases)

InitKw == InitOne(KwCases)

ApplyFixBibliographyContent(f, n) ==
    /\ out[f].exists /\ src[n].exists
    /\ LET r == FixBibliographyContent(out[f].doc, CitationsById(src[n].cits))
       IN  /\ out' = [out EXCEPT ![f] = File(r.content)]
           /\ last' = Op("fix_bibliography_content", f, n, out, r.fixes)
    /\ UNCHANGED <<src, xml, issues_found, work>>

ApplyFixBibliographyFile(f, n) ==
    /\ out[f].exists /\ src[n].exists
    /\ LET r == FixBibliographyFile(out[f].doc, CitationsByNum(src[n].cits))
       IN  /\ out' = [out EXCEPT ![f] = File(r.content)]
           /\ last' = Op("fix_bibliography_file", f, n, out, r.fixes)
    /\ UNCHANGED <<src, xml, issues_found, work>>

NextBib ==
    \/ \E f \in Files, n \in SrcNums : ApplyFixBibliographyContent(f, n)
    \/ \E f \in Files, n \in SrcNums : ApplyFixBibliographyFile(f, n)

SpecBib == InitBib /\ [][NextBib]_vars

ApplyFixKeywordsInFile(f, n) ==
    /\ out[f].exists /\ src[n].exists
    /\ LET r == FixKeywordsInFile(out[f].doc, ExtractKeywords(src[n].kws))
       IN  /\ out' = [out EXCEPT ![f] = File(r.content)]
           /\ last' = Op("fix_keywords_in_file", f, n, out,
                         IF r.fixed THEN <<[original |-> r.original]>> ELSE <<>>)
    /\ UNCHANGED <<src, xml, issues_found, work>>

ApplyFixKeywordsSection(f, n) ==
    /\ out[f].exists /\ src[n].exists
    /\ LET r == FixKeywordsSection(out[f].doc, ExtractKeywords(src[n].kws))
       IN  /\ out' = [out EXCEPT ![f] = File(r.content)]
           /\ last' = Op("fix_keywords_section", f, n, out,
                         IF r.fixed THEN <<[original |-> r.original]>> ELSE <<>>)
    /\ UNCHANGED <<src, xml, issues_found, work>>

ApplyFixAllGarbledKeywords ==
    /\ LET r == FixAllGarbledKeywords(out, src)
       IN  /\ out' = r.tree
           /\ last' = Op("fix_all_garbled_keywords", <<>>, 0, out, r.fixes)
    /\ UNCHANGED <<src, xml, issues_found, work>>

ApplyFindGarbledKeywordsFiles ==
    /\ last' = Op("find_garbled_keywords_files", <<>>, 0, out,
                  FindGarbledKeywordsFiles(out))
    /\ UNCHANGED <<src, xml, out, issues_found, work>>

\* fix_keywords.py: main()
ApplyFixKeywordsMain ==
    /\ LET r == FixKeywordsMain(out, src)
       IN  /\ out' = r.tree
           /\ last' = Op("fix_keywords_main", <<>>, 0, out, r.fixes)
    /\ UNCHANGED <<src, xml, issues_found, work>>

NextKw ==
    \/ \E f \in Files, n \in SrcNums : ApplyFixKeywordsInFile(f, n)
    \/ \E f \in Files, n \in SrcNums : ApplyFixKeywordsSection(f, n)
    \/ ApplyFixAllGarbledKeywords
    \/ ApplyFindGarbledKeywordsFiles
    \/ ApplyFixKeywordsMain

SpecKw == InitKw /\ [][NextKw]_vars

InitIdx == InitOne(IdxCases)

ApplyVerifyIndextermFixes ==
    /\ LET r == VerifyIndextermFixes(out)
       IN  /\ out' = r.tree
           /\ issues_found' = RecordIndextermIssues(issues_found, r.fixes)
           /\ last' = Op("verify_indexterm_fixes", <<>>, 0, out, r.fixes)
    /\ UNCHANGED <<src, xml, work>>

NextIdx == ApplyVerifyIndextermFixes

SpecIdx == InitIdx /\ [][NextIdx]_vars

\* the escape cases of both kinds, for the functions in any order
FnCases == EscapeCases \cup SpanCases

InitFn == InitOne(FnCases)

NextFn == NextBib \/ NextKw

SpecFn == InitFn /\ [][NextFn]_vars

(***************************************************************************)
(* The scripts run on a corpus, in any order and any number of times.      *)
(***************************************************************************)
W_Depression == <<"D", "e", "p", "r", "e", "s", "s", "i", "o", "n">>

W_Title == <<" ", "T">>

Garbled == Para(Email(FALSE, FALSE, FALSE, FALSE) \o Words(<<W_Depression, W_Mood>>))

Short == Bib(BibId(<<"1">>), <<"x">>)

\* the chapter numbers a title may declare
Titles == {<<>>, <<"6", ".">> \o W_Title, <<"9", ".">> \o W_Title}

TitleSeg(t) == IF t = <<>> THEN <<>> ELSE <<ChapterTitle(t)>>

\* the two source documents differ in every citation and keyword
Source6(title) == SrcDoc(title, <<Cit(<<"1">>, Rep("x", 4))>>, <<W_Depression, W_Mood>>)

Source9(title) == SrcDoc(title, <<Cit(<<"1">>, Rep("y", 4))>>, <<W_Sad>>)

\* a chapter-11 file with a title, next to a chapter-8 file
MapCases ==
    {[files |-> [f \in Files |->
                    IF f = XmlName(11, 1) THEN File(TitleSeg(t) \o body)
                    ELSE IF f = XmlName(8, 2) /\ other THEN File(<<Short, Garbled>>)
                    ELSE NoFile],
      sources |-> [n \in SrcNums |-> IF n = 6 THEN Source6(t6)
                                     ELSE Source9(<<"9", ".">> \o W_Title)]] :
        t \in Titles, body \in {<<Short>>, <<Garbled>>, <<Short, Garbled>>},
        other \in BOOLEAN, t6 \in Titles}

\* documents with nothing to repair
CleanDocs ==
    {<<Text(<<"x", "\r", "\n", "y">>)>>, <<Text(<<"x", "\n", "y">>)>>,
     <<Text(<<"x", "\r", "y">>)>>, <<KeywordSet(<<W_Mood>>)>>,
     <<ChapterTitle(<<"6", ".">> \o W_Title), Bib(BibId(<<"1">>), Rep("x", 4))>>,
     <<ChapterTitle(<<"6", ".">> \o W_Title), Bib(BibId(<<"2">>), <<"x">>)>>,
     <<Para(<<"x", "x">>), Text(<<"\n">>)>>}

CleanCases ==
    {[files |-> [f \in Files |->
                    IF f = XmlName(8, 1) THEN File(d)
                    ELSE IF f = XmlName(8, 2) /\ other THEN File(<<Short, Garbled>>)
                    ELSE NoFile],
      sources |-> [n \in SrcNums |-> IF n = 6 THEN Source6(<<"6", ".">> \o W_Title)
                                     ELSE Source9(<<"9", ".">> \o W_Title)]] :
        d \in CleanDocs, other \in BOOLEAN}

\* two source documents whose titles declare the same chapter number, each
\* holding the citation of one of the two entries of a chapter-11 file
CollideCases ==
    {[files |-> [f \in Files |->
                    IF f = XmlName(11, 1)
                    THEN File(<<Bib(BibId(<<"1">>), <<"x">>), Bib(BibId(<<"2">>), <<"x">>)>>)
                    ELSE NoFile],
      sources |-> [n \in SrcNums |->
                    IF n = 6
                    THEN SrcDoc(<<"9", ".">> \o W_Title, <<Cit(<<"1">>, Rep("x", 4))>>, kws)
                    ELSE SrcDoc(<<"9", ".">> \o W_Title, <<Cit(<<"2">>, Rep("y", 4))>>, kws)]] :
        kws \in {<<>>, <<W_Sad>>}}

\* a chapter-8 file that does not decode, next to one with an entry and a
\* keyword paragraph to repair
Undecodable == <<Text(<<"x", BadByte>>)>>

IoCases ==
    {[files |-> [f \in Files |->
                    IF f = XmlName(8, 1) THEN File(Undecodable)
                    ELSE IF f = XmlName(8, 2) THEN File(<<ChapterTitle(t), Short, Garbled>>)
                    ELSE NoFile],
      sources |-> [n \in SrcNums |-> IF n = 6 THEN Source6(<<"6", ".">> \o W_Title)
                                     ELSE Source9(<<"9", ".">> \o W_Title)]] :
        t \in {<<"6", ".">> \o W_Title, <<"9", ".">> \o W_Title}}

Corpora == MapCases \cup CleanCases \cup CollideCases

\* the output tree starts empty (os.makedirs(OUTPUT_DIR, exist_ok=True)
\* creates it), or it exists already and holds files
Init ==
    \/ \E c \in Corpora :
        /\ src = c.sources
        /\ xml = c.files
        /\ out = [f \in Files |-> NoFile]
        /\ last = NoOp
        /\ issues_found = NoIssues
        /\ work = Idle
    \/ \E c \in IoCases, kept \in BOOLEAN :
        /\ src = c.sources
        /\ xml = c.files
        /\ out = [f \in Files |-> IF kept THEN c.files[f] ELSE NoFile]
        /\ last = NoOp
        /\ issues_found = NoIssues
        /\ work = Idle

\* python3 fix_content_loss.py: process_all_chapters(), then
\* verify_indexterm_fixes(); an error raised by process_all_chapters ends
\* the script there
RunProcessAllChapters ==
    /\ \E order \in GlobOrders(xml) :
           LET r == ProcessAllChapters(xml, out, src, order)
               v == VerifyIndextermFixes(r.tree)
           IN  IF r.aborted
               THEN /\ out' = r.tree
                    /\ issues_found' = NoIssues
                    /\ last' = [Run("process_all_chapters", out, r.fixes)
                                   EXCEPT !.aborted = TRUE]
               ELSE /\ out' = v.tree
                    /\ issues_found' = RecordIndextermIssues(NoIssues, v.fixes)
                    /\ last' = Run("process_all_chapters", out, r.fixes)
    /\ UNCHANGED <<src, xml, work>>

\* python3 fix_remaining_bibliography.py
RunFixRemainingBibliography ==
    /\ LET r == FixRemainingBibliographyMain(out, src)
       IN  /\ out' = r.tree
           /\ last' = Run("fix_remaining_bibliography", out, r.fixes)
    /\ UNCHANGED <<src, xml, issues_found, work>>

\* python3 fix_keywords.py
RunFixKeywords ==
    /\ LET r == FixKeywordsMain(out, src)
       IN  /\ out' = r.tree
           /\ last' = Run("fix_keywords", out, r.fixes)
    /\ UNCHANGED <<src, xml, issues_found, work>>

\* python3 fix_all_keywords.py
RunFixAllKeywords ==
    /\ LET r == FixAllGarbledKeywords(out, src)
       IN  /\ out' = r.tree
           /\ last' = Run("fix_all_keywords", out, r.fixes)
    /\ UNCHANGED <<src, xml, issues_found, work>>

Next ==
    \/ RunProcessAllChapters
    \/ RunFixRemainingBibliography
    \/ RunFixKeywords
    \/ RunFixAllKeywords

Spec == Init /\ [][Next]_vars

(***************************************************************************)
(* The loops of the scripts with their items partitioned among workers:    *)
(* every worker takes its items in the order of the loop and runs the body *)
(* of the loop on each; the read of a file and the write of it are         *)
(* separate steps, and the steps of the workers interleave.                *)
(***************************************************************************)
Workers == {1, 2}

Loops ==
    {"process_all_chapters", "fix_remaining_bibliography", "fix_keywords",
     "fix_all_keywords"}

\* the list a loop runs over: the source chapters (xhtml_files), or the
\* files of the output tree
Items(loop) == IF loop = "process_all_chapters" THEN SrcSeq ELSE FileSeq

\* the files one pass of the body reads and writes, one after the other:
\* the bibliography file and the keywords file of a source chapter
Parts(loop) == IF loop = "process_all_chapters" THEN 2 ELSE 1

\* the file a part of the body works on; <<>> when it works on none
Target(loop, source, xmltree, item, part) ==
    IF loop # "process_all_chapters" THEN item
    ELSE LET citations == CitationsById(source[item].cits)
             keywords == ExtractKeywords(source[item].kws)
             xml_ch_id == GetXmlChapterIdForXhtml(source, item)
         IN  IF ~source[item].exists \/ (citations = <<>> /\ keywords = <<>>) THEN <<>>
             ELSE IF part = 1 THEN FindXmlBibliographyFile(xmltree, xml_ch_id)
             ELSE IF keywords = <<>> THEN <<>>
             ELSE FindXmlKeywordsFile(xmltree, xml_ch_id)

\* the part of the body on its target, the tree holding the target as it
\* was read: [file |-> the target afterwards, fixes |-> its fix records]
PartOn(loop, source, tree, item, part, target) ==
    IF loop = "process_all_chapters"
    THEN LET acc == [tree |-> tree, fixes |-> <<>>]
             r == IF part = 1
                  THEN BibliographyPart(acc, target, CitationsById(source[item].cits), item)
                  ELSE KeywordsPart(acc, target, ExtractKeywords(source[item].kws), item)
         IN  [file |-> r.tree[target], fixes |-> r.fixes]
    ELSE IF loop = "fix_remaining_bibliography"
         THEN RemainingBibliographyFile(tree, source, item)
    ELSE IF loop = "fix_keywords" THEN KeywordsFile(tree, source, item)
    ELSE AllKeywordsFile(tree, source, item)

\* the output tree the loop leaves when it runs as the scripts run it
SequentialRun(loop, source, xmltree, tree) ==
    IF loop = "process_all_chapters"
    THEN ChapterLoop(xmltree, source, [tree |-> tree, fixes |-> <<>>], SrcSeq).tree
    ELSE IF loop = "fix_remaining_bibliography"
         THEN FixRemainingBibliographyMain(tree, source).tree
    ELSE IF loop = "fix_keywords" THEN FixKeywordsMain(tree, source).tree
    ELSE FixAllGarbledKeywords(tree, source).tree

\* the items of worker w, in the order of the loop
Mine(w) == SelectSeq(Items(work.loop), LAMBDA item : work.owner[item] = w)

Busy(w) == work.loop # "none" /\ work.w[w].i <= Len(Mine(w))

Current(w) == Mine(w)[work.w[w].i]

\* corpora with two files to repair, and the ones where two source
\* documents declare the same chapter
ParCases ==
    CollideCases \cup
    {c \in MapCases : c.files[XmlName(8, 2)].exists /\ Len(c.files[XmlName(11, 1)].doc) = 3}

\* the files are copied to the output tree; then the loop starts
InitPar ==
    \E c \in ParCases, loop \in Loops :
        \E owner \in [{Items(loop)[i] : i \in 1..Len(Items(loop))} -> Workers] :
            /\ src = c.sources
            /\ xml = c.files
            /\ out = CopyThrough(c.files, [f \in Files |-> NoFile], FileSeq).tree
            /\ last = NoOp
            /\ issues_found = NoIssues
            /\ work = [loop |-> loop, owner |-> owner, start |-> out,
                       w |-> [w \in Workers |->
                                [i |-> 1, part |-> 1, phase |-> "read", buf |-> NoFile]]]

\* worker w reads the file its next part works on
WorkerRead(w) ==
    /\ Busy(w) /\ work.w[w].phase = "read"
    /\ LET target == Target(work.loop, src, xml, Current(w), work.w[w].part)
       IN  work' = [work EXCEPT !.w[w].phase = "write",
                                !.w[w].buf = IF target = <<>> THEN NoFile ELSE out[target]]
    /\ UNCHANGED <<src, xml, out, last, issues_found>>

\* worker w repairs what it read and, if there was a fix, writes the file
WorkerWrite(w) ==
    /\ Busy(w) /\ work.w[w].phase = "write"
    /\ LET item == Current(w)
           part == work.w[w].part
           target == Target(work.loop, src, xml, item, part)
           r == PartOn(work.loop, src, [out EXCEPT ![target] = work.w[w].buf],
                       item, part, target)
       IN  /\ out' = IF target # <<>> /\ r.fixes # <<>>
                     THEN [out EXCEPT ![target] = r.file] ELSE out
           /\ work' = [work EXCEPT !.w[w].phase = "read",
                                   !.w[w].buf = NoFile,
                                   !.w[w].part = IF part < Parts(work.loop) THEN part + 1 ELSE 1,
                                   !.w[w].i = IF part < Parts(work.loop) THEN @ ELSE @ + 1]
    /\ UNCHANGED <<src, xml, last, issues_found>>

NextPar ==
    \/ \E w \in Workers : WorkerRead(w)
    \/ \E w \in Workers : WorkerWrite(w)

SpecPar == InitPar /\ [][NextPar]_vars

(***************************************************************************)
(* Properties of the bibliography repair.                                  *)
(***************************************************************************)
BibOps == {"fix_bibliography_content", "fix_bibliography_file"}

\* C1: bibliography repair is idempotent: applied to the output of a first
\* application of the same function with the same citation table, it
\* changes no byte of the document and reports zero fixes.
C1_SecondRepairIsNoOp ==
    (last.op \in BibOps /\ last.again) => (out = last.before /\ last.fixes = <<>>)

\* C4: whenever an entry is repaired, the clean citation that replaces it is
\* strictly longer than the raw text of the entry (blanks included), in
\* both functions.
C4_RestoredIsLonger ==
    last.op \in BibOps =>
        \A i \in 1..Len(last.fixes) : Len(last.fixes[i].full) > Len(last.fixes[i].old)

\* the number an id ends in ("bib12" -> 12, "CR012" -> 12); -1 if it has none
TrailingNumber(id) ==
    LET n == CHOOSE m \in 0..Len(id) :
                 /\ \A j \in (Len(id) - m + 1)..Len(id) : id[j] \in Digit
                 /\ (m < Len(id) => id[Len(id) - m] \notin Digit)
    IN  IF n = 0 THEN -1 ELSE ToInt(SubSeq(id, Len(id) - n + 1, Len(id)), 10)

\* the clean citations of source n whose reference number is that of entry e
Matching(n, e) ==
    {CleanCitation(src[n].cits[k].raw) :
        k \in {h \in 1..Len(src[n].cits) :
                  /\ TrailingNumber(e.id) >= 0
                  /\ TrailingNumber(src[n].cits[h].id) = TrailingNumber(e.id)}}

\* entry e of the document the operation started from was rewritten
Rewritten(e) ==
    \E i \in 1..Len(last.fixes) : last.fixes[i].bib_id = e.id /\ last.fixes[i].old = e.text

\* C5: an entry is rewritten exactly when its text is non-empty, a clean
\* citation of its reference number exists, and the length of its text is
\* less than 70% of the length of that citation.
C5_RewrittenIffTruncated ==
    last.op \in BibOps =>
        \A i \in 1..Len(last.before[last.file].doc) :
            LET e == last.before[last.file].doc[i]
            IN  e.k = "bibliomixed" =>
                    (Rewritten(e) <=>
                        /\ e.text # <<>>
                        /\ \E c \in Matching(last.n, e) : 10 * Len(e.text) < 7 * Len(c))

\* an entry the repair from source n is to classify corrupted: non-empty and
\* shorter than 70% of a clean citation of its reference number
ClassifiedCorrupted(n, e) ==
    /\ e.k = "bibliomixed" /\ e.text # <<>>
    /\ \E c \in Matching(n, e) : 10 * Len(e.text) < 7 * Len(c)

\* C13: after bibliography repair the document differs from the input only
\* inside the text of the entries classified corrupted: every entry keeps
\* its id and its position, every other entry and all text outside the
\* entries is unchanged, also when an entry literal recurs.
C13_OnlyCorruptedEntryTextChanges ==
    last.op \in BibOps =>
        LET a == last.before[last.file].doc
            b == out[last.file].doc
        IN  /\ Len(b) = Len(a)
            /\ \A i \in 1..Len(a) :
                  /\ b[i].k = a[i].k /\ b[i].id = a[i].id /\ b[i].kws = a[i].kws
                  /\ ClassifiedCorrupted(last.n, a[i]) \/ b[i].text = a[i].text

(***************************************************************************)
(* Properties of the keyword repairs.                                      *)
(***************************************************************************)
KwOps == {"fix_keywords_in_file", "fix_keywords_section", "fix_all_garbled_keywords"}

HasKeywordSet(doc) == \E i \in 1..Len(doc) : doc[i].k = "keywordset"

\* C2: a document that already holds a <keywordset> is left unchanged by
\* every keyword repair, whatever else it holds.
C2_KeywordSetDocumentUntouched ==
    last.op \in KwOps =>
        \A f \in Files :
            (last.before[f].exists /\ HasKeywordSet(last.before[f].doc))
                => out[f] = last.before[f]

\* the paragraph of the example: the domain of the address split by a blank
SplitDomain == Email(FALSE, FALSE, FALSE, TRUE)

\* the keyword tokens of a source document hold no markup and no blank ends
PlainTokens(kws) ==
    /\ kws # <<>>
    /\ \A i \in 1..Len(kws) : kws[i] # <<>> /\ kws[i] = Strip(kws[i]) /\ HtmlEscape(kws[i]) = kws[i]

\* C6: a paragraph "address with split domain, then the keywords" is
\* replaced, by each keyword repair, by a keyword list that holds exactly
\* the keyword tokens k1..kn of the source document, in order, and no part
\* of the address.
C6_SplitDomainParagraphRepaired ==
    \A f \in Files, n \in SrcNums :
        (/\ last.op \in KwOps
         /\ last.op # "fix_all_garbled_keywords" => (last.file = f /\ last.n = n)
         /\ last.op = "fix_all_garbled_keywords" => n = ToInt(ChapterDigits(f), 10) - 2
         /\ last.before[f].exists /\ src[n].exists
         /\ last.before[f].doc = <<Para(SplitDomain \o Words(src[n].kws))>>
         /\ PlainTokens(src[n].kws))
            => out[f] = File(<<KeywordSet(src[n].kws)>>)

\* a paragraph "local @ domain . tld" + two capitalized words, with or
\* without a blank at each of the four places
IsBlankCase(doc) ==
    \E b1 \in BOOLEAN, b2 \in BOOLEAN, b3 \in BOOLEAN, b4 \in BOOLEAN :
        doc = <<Para(Email(b1, b2, b3, b4) \o Words(<<W_Mood, W_Sad>>))>>

\* C7: for every combination of blanks around '@' and '.', the paragraph is
\* found by find_garbled_keywords_files and its repair by
\* fix_keywords_in_file takes place.
C7_EveryBlankCombinationMatched ==
    \A f \in Files :
        (last.op # "none" /\ last.before[f].exists /\ IsBlankCase(last.before[f].doc)) =>
            /\ last.op = "find_garbled_keywords_files" =>
                   \E i \in 1..Len(last.fixes) : last.fixes[i] = f
            /\ (/\ last.op = "fix_keywords_in_file" /\ last.file = f
                /\ ExtractKeywords(src[last.n].kws) # <<>>)
                   => last.fixes # <<>>

\* a capitalized word
Capitalized == Cat(<<Cls(Upper), Star(Cls(Letter \cup {"-"}))>>)

\* an address-like token (with or without blanks in it), then one or more
\* capitalized words
AddressThenWords ==
    Cat(<<Plus(Cls(NotLt \ {"@"})), Cls({"@"}), Plus(Cls(NotLt \ {"@"})),
          Plus(Cat(<<Plus(Ws), Capitalized>>))>>)

\* C8: a paragraph is replaced by a keyword list only if it is an
\* address-like token followed by one or more capitalized words; a paragraph
\* with an '@' and no capitalized word after it is never replaced.
C8_OnlyAddressThenWordsReplaced ==
    last.op \in KwOps =>
        \A f \in Files :
            \A i \in 1..Len(last.before[f].doc) :
                (/\ Len(out[f].doc) = Len(last.before[f].doc)
                 /\ last.before[f].doc[i].k = "para"
                 /\ out[f].doc[i].k = "keywordset")
                    => FullMatch(AddressThenWords, last.before[f].doc[i].text)

(***************************************************************************)
(* Properties of the inserted text.                                        *)
(***************************************************************************)
\* the character references html.escape writes
Escapes ==
    {<<"&", "a", "m", "p", ";">>, <<"&", "l", "t", ";">>, <<"&", "g", "t", ";">>,
     <<"&", "q", "u", "o", "t", ";">>, <<"&", "#", "x", "2", "7", ";">>}

\* t holds no '<', no '>', and no '&' that does not start a reference
WellEscaped(t) ==
    \A i \in 1..Len(t) :
        /\ t[i] \notin {"<", ">"}
        /\ t[i] = "&" =>
               \E e \in Escapes :
                   i + Len(e) - 1 <= Len(t) /\ SubSeq(t, i, i + Len(e) - 1) = e

\* the source document the latest keyword repair took its keywords from
KeywordSource ==
    IF last.op = "fix_all_garbled_keywords" THEN last.fixes[1].n ELSE last.n

\* C9: every text substituted into a document is escaped exactly once: the
\* inserted citation or keyword holds no raw '<' or '>' and no unescaped
\* '&', and decoding it once gives the clean text extracted from the source.
C9_InsertedTextEscapedOnce ==
    /\ last.op \in BibOps =>
           \A i \in 1..Len(last.before[last.file].doc) :
               LET e == last.before[last.file].doc[i]
                   t == out[last.file].doc[i].text
               IN  (e.k = "bibliomixed" /\ Rewritten(e)) =>
                       /\ WellEscaped(t)
                       /\ \E k \in 1..Len(src[last.n].cits) :
                              HtmlUnescape(t) = CleanCitation(src[last.n].cits[k].raw)
                       /\ \E k \in 1..Len(last.fixes) :
                              /\ last.fixes[k].bib_id = e.id
                              /\ HtmlUnescape(t) = last.fixes[k].full
    /\ (last.op \in KwOps /\ last.fixes # <<>>) =>
           \A f \in Files :
               \A i \in 1..Len(out[f].doc) :
                   (/\ Len(out[f].doc) = Len(last.before[f].doc)
                    /\ last.before[f].doc[i].k = "para"
                    /\ out[f].doc[i].k = "keywordset") =>
                       LET ks == out[f].doc[i].kws
                           ex == ExtractKeywords(src[KeywordSource].kws)
                       IN  /\ Len(ks) = Len(ex)
                           /\ \A j \in 1..Len(ks) :
                                  WellEscaped(ks[j]) /\ HtmlUnescape(ks[j]) = ex[j]

\* a citation whose clean text holds '&' and '<' has been inserted
C9_MarkupCitationInserted ==
    /\ last.op \in BibOps
    /\ \E k \in 1..Len(last.fixes) :
           /\ \E i \in 1..Len(last.fixes[k].full) : last.fixes[k].full[i] = "&"
           /\ \E i \in 1..Len(last.fixes[k].full) : last.fixes[k].full[i] = "<"
    /\ out # last.before

(***************************************************************************)
(* Properties of a run of the scripts.                                     *)
(***************************************************************************)
\* the copy-through has been followed by the bibliography repair and a
\* keyword repair
FullRun ==
    /\ {"process_all_chapters", "fix_remaining_bibliography"} \subseteq last.ran
    /\ last.ran \cap {"fix_keywords", "fix_all_keywords"} # {}

\* an entry that is non-empty and shorter than 70% of a clean citation of
\* its reference number, in some source document
CorruptedEntry(e) ==
    /\ e.k = "bibliomixed" /\ e.text # <<>>
    /\ \E n \in SrcNums : \E c \in Matching(n, e) : 10 * Len(e.text) < 7 * Len(c)

\* a paragraph that is an address followed by capitalized words
CorruptedParagraph(e) == e.k = "para" /\ FullMatch(AddressThenWords, e.text)

ZeroCorrupted(doc) ==
    \A i \in 1..Len(doc) : ~CorruptedEntry(doc[i]) /\ ~CorruptedParagraph(doc[i])

\* C3: a derivative document with zero corrupted regions is, after a full
\* run, byte-identical in the output tree to the input file.
C3_CleanDocumentByteIdentical ==
    FullRun =>
        \A f \in Files :
            (xml[f].exists /\ ZeroCorrupted(xml[f].doc)) => out[f] = xml[f]

\* the document of file f as the latest script read it
DocRead(f) == IF last.op = "process_all_chapters" THEN xml[f].doc ELSE last.before[f].doc

\* C10: when a derivative document declares a chapter ordinal in its title
\* and the offset applied to its file chapter id predicts another source
\* chapter, every repair takes its clean text from the source document of
\* the title-declared ordinal.
C10_TitleOrdinalWins ==
    last.op # "none" =>
        \A i \in 1..Len(last.fixes) :
            LET fx == last.fixes[i]
                declared == TitleDigits(DocRead(fx.file))
                predicted == ToInt(ChapterDigits(fx.file), 10) - 2
            IN  (declared # <<>> /\ ToInt(declared, 10) # predicted)
                    => fx.n = ToInt(declared, 10)

(***************************************************************************)
(* Properties of the chapter resolution.                                   *)
(***************************************************************************)
\* the source chapter the title of a document declares, 0 when it declares
\* none or there is no such source document
DeclaredSource(doc) ==
    LET d == TitleDigits(ReadText(doc))
        n == ToInt(d, 10)
    IN  IF d # <<>> /\ n \in SrcNums /\ src[n].exists THEN n ELSE 0

\* the source chapter the fixed offset predicts for a file, 0 when there is
\* no such source document
PredictedSource(f) ==
    LET n == ToInt(ChapterDigits(f), 10) - 2
    IN  IF ChapterDigits(f) # <<>> /\ n \in SrcNums /\ src[n].exists THEN n ELSE 0

\* the three cases, in order
ResolvedSource(f, doc) ==
    IF DeclaredSource(doc) # 0 THEN DeclaredSource(doc) ELSE PredictedSource(f)

\* the latest run reports a repair of file f from source chapter n
Repaired(f, n) ==
    \E i \in 1..Len(last.fixes) : last.fixes[i].file = f /\ last.fixes[i].n = n

\* C11: chapter resolution uses the title-declared ordinal, else the fixed
\* offset, and only when neither yields a source document is the document
\* skipped unchanged; a bibliography document without a title ordinal is
\* resolved through the offset, and a source chapter without a title number
\* is mapped through the offset, not through its raw file number.
C11_ResolutionFollowsThreeCases ==
    /\ last.op = "fix_remaining_bibliography" =>
         \A f \in Files :
            (last.before[f].exists /\ HasBibliography(ReadText(last.before[f].doc))) =>
                LET n == ResolvedSource(f, last.before[f].doc)
                IN  /\ n = 0 => out[f] = last.before[f]
                    /\ (/\ n # 0
                        /\ FixBibliographyFile(last.before[f].doc,
                                               CitationsByNum(src[n].cits)).fixes # <<>>)
                          => Repaired(f, n)
    /\ last.op = "process_all_chapters" =>
         \A n \in SrcNums :
            (src[n].exists /\ LeadingNumber(src[n].title) = <<>>) =>
                LET f == FindXmlBibliographyFile(xml, n + 2)
                IN  (/\ f # <<>>
                     /\ FixBibliographyContent(ReadText(xml[f].doc),
                                               CitationsById(src[n].cits)).fixes # <<>>)
                       => Repaired(f, n)

\* C12: within one run of process_all_chapters no derivative chapter is
\* repaired from two different source documents: two distinct source
\* chapters never resolve to the same derivative chapter id.
C12_MappingIsAFunction ==
    last.op = "process_all_chapters" =>
        /\ \A i, j \in 1..Len(last.fixes) :
              ChapterDigits(last.fixes[i].file) = ChapterDigits(last.fixes[j].file)
                  => last.fixes[i].n = last.fixes[j].n
        /\ \A a, b \in SrcNums :
              (src[a].exists /\ src[b].exists /\ a # b)
                  => GetXmlChapterIdForXhtml(src, a) # GetXmlChapterIdForXhtml(src, b)

(***************************************************************************)
(* Properties of the keyword list written.                                 *)
(***************************************************************************)
\* the tokens of source n: the contents of its Keyword spans, trimmed, the
\* empty ones dropped, in order of appearance, duplicates kept
RECURSIVE TokensOf(_)
TokensOf(spans) ==
    IF spans = <<>> THEN <<>>
    ELSE (IF \A i \in 1..Len(Head(spans)) : Head(spans)[i] \in Space
          THEN <<>> ELSE <<Strip(Head(spans))>>) \o TokensOf(Tail(spans))

\* the segments of file f the latest operation changed
ChangedAt(f) ==
    {i \in 1..Min(Len(out[f].doc), Len(last.before[f].doc)) :
        out[f].doc[i] # last.before[f].doc[i]}

\* C14: a keyword repair replaces exactly one garbled block of a document,
\* by a keyword list with exactly one entry per token extracted from the
\* source, in order of appearance, duplicates kept, empty tokens dropped.
C14_OneBlockOneEntryPerToken ==
    (last.op \in KwOps /\ last.fixes # <<>>) =>
        \A f \in Files :
            out[f] # last.before[f] =>
                /\ Len(out[f].doc) = Len(last.before[f].doc)
                /\ Cardinality(ChangedAt(f)) = 1
                /\ \A i \in ChangedAt(f) :
                      LET ks == out[f].doc[i].kws
                          ts == TokensOf(src[KeywordSource].kws)
                      IN  /\ last.before[f].doc[i].k = "para"
                          /\ out[f].doc[i].k = "keywordset"
                          /\ Len(ks) = Len(ts)
                          /\ \A j \in 1..Len(ks) : HtmlUnescape(ks[j]) = ts[j]

(***************************************************************************)
(* Properties of what a run reports.                                       *)
(***************************************************************************)
\* the issues a run records about bibliography entries
BibliographyIssues == issues_found.bibliography_truncated \o issues_found.other_issues

\* entry e of file f is recorded in the issues
ReportedNoMatch(f, e) ==
    \E i \in 1..Len(BibliographyIssues) :
        /\ BibliographyIssues[i].file = f
        /\ BibliographyIssues[i].text \in {e.id, e.text}

\* no source document holds a citation of the reference number of entry e
NoSourceMatch(e) ==
    /\ e.k = "bibliomixed" /\ TrailingNumber(e.id) >= 0
    /\ \A n \in SrcNums : Matching(n, e) = {}

\* C15: a bibliography entry whose reference number has no matching clean
\* citation in the source is left unmodified by the repair and is recorded
\* in the run's issues as a region with no source match.
C15_UnmatchedEntryKeptAndReported ==
    last.op \in {"process_all_chapters", "fix_remaining_bibliography"} =>
        \A f \in Files :
            \A i \in 1..Len(DocRead(f)) :
                (out[f].exists /\ NoSourceMatch(DocRead(f)[i])) =>
                    /\ i <= Len(out[f].doc)
                    /\ out[f].doc[i] = DocRead(f)[i]
                    /\ ReportedNoMatch(f, DocRead(f)[i])

(***************************************************************************)
(* Entries whose id ends in no number.                                     *)
(***************************************************************************)
\* entry e is named in what the operation returned or in a list of issues
Counted(e) ==
    \/ \E k \in 1..Len(last.fixes) : last.fixes[k].bib_id = e.id
    \/ \E k \in 1..Len(BibliographyIssues) : BibliographyIssues[k].text \in {e.id, e.text}

\* the entries before position i leave entry i for the repair to act on
FirstOccurrence(doc, i) == \A h \in 1..(i - 1) : doc[h] # doc[i]

\* C17: a bibliography entry whose id has no parsable trailing number is
\* left unmodified, the entries after it in the same document are still
\* processed (a corrupted one is rewritten), and the skipped entry is
\* counted in the results of the run.
C17_UnparsableIdSkippedAndCounted ==
    last.op \in BibOps =>
        LET doc == last.before[last.file].doc
        IN  \A i \in 1..Len(doc) :
                (doc[i].k = "bibliomixed" /\ TrailingNumber(doc[i].id) = -1) =>
                    /\ out[last.file].doc[i] = doc[i]
                    /\ \A j \in (i + 1)..Len(doc) :
                           (ClassifiedCorrupted(last.n, doc[j]) /\ FirstOccurrence(doc, j))
                               => /\ Rewritten(doc[j])
                                  /\ out[last.file].doc[j].text # doc[j].text
                    /\ Counted(doc[i])

(***************************************************************************)
(* Properties of the verification pass.                                    *)
(***************************************************************************)
\* C18: verify_indexterm_fixes never mutates a document: whatever the output
\* tree holds, every file is the same before and after the pass, and so are
\* the source and derivative directories; only the issue list may change.
C18_VerifyNeverMutates ==
    [][last'.op = "verify_indexterm_fixes" =>
          /\ out' = out /\ last'.before = out
          /\ src' = src /\ xml' = xml]_vars

\* the pass has run over a file with "\r\n" line ends and has recorded issues
C18_VerifiedWithIssues ==
    /\ last.op = "verify_indexterm_fixes"
    /\ last.fixes # <<>> /\ issues_found.indexterm_issues = last.fixes
    /\ \E f \in Files : out[f].exists /\ ReadText(out[f].doc) # out[f].doc

\* the text of file f in front of its segment i, as the pass reads it
TextBefore(f, i) == Render(SubSeq(ReadText(out[f].doc), 1, i - 1))

\* the primary text of marker i stands as visible text right before it
VisibleBefore(f, i) ==
    LET term == ReadText(out[f].doc)[i].text
        before == RStrip(TextBefore(f, i))
    IN  /\ Len(before) >= Len(term)
        /\ SubSeq(before, Len(before) - Len(term) + 1, Len(before)) = term

\* marker i opens a paragraph: only blanks stand between the paragraph's
\* opening tag and the marker
OpensParagraph(f, i) ==
    FullMatch(Cat(<<Star(Cls(Chars)), Lit(SubSeq(S_para, 1, 5)), Star(Cls(Chars \ {">"})),
                    Cls({">"}), Star(Ws)>>),
              TextBefore(f, i))

\* an issue is recorded for marker i of file f
ReportedMarker(f, i) ==
    \E k \in 1..Len(issues_found.indexterm_issues) :
        LET issue == issues_found.indexterm_issues[k]
            start == Len(TextBefore(f, i))
        IN  /\ issue.file = f
            /\ issue.text = ReadText(out[f].doc)[i].text
            /\ issue.context = SubSeq(TextBefore(f, i), start - Min(start, ContextLen) + 1, start)

\* C19: the index-term check is per occurrence: every marker whose primary
\* text is not visible right before that same marker, and which does not
\* open a paragraph, is reported as an issue, also when another marker with
\* the same primary text has its visible text in front of it.
C19_EveryBareMarkerReported ==
    last.op = "verify_indexterm_fixes" =>
        \A f \in Files :
            out[f].exists =>
                \A i \in 1..Len(out[f].doc) :
                    (/\ out[f].doc[i].k = "indexterm"
                     /\ ~VisibleBefore(f, i)
                     /\ ~OpensParagraph(f, i))
                        => ReportedMarker(f, i)

(***************************************************************************)
(* Documents that cannot be read.                                          *)
(***************************************************************************)
Scripts ==
    {"process_all_chapters", "fix_keywords", "fix_all_keywords",
     "fix_remaining_bibliography"}

\* C16: a document that cannot be decoded never aborts a run: in every
\* script the failing document is skipped (left as it is) and all the
\* remaining documents are still processed; for the copy-through loop,
\* every readable file of the derivative directory is in the output tree
\* after the run.
C16_UnreadableDocumentNeverAborts ==
    last.op \in Scripts =>
        /\ ~last.aborted
        /\ \A f \in Files :
               (last.before[f].exists /\ ~Decodable(last.before[f].doc)
                    /\ ~Readable(xml[f])) => out[f] = last.before[f]
        /\ last.op = "process_all_chapters" =>
               \A f \in Files : Readable(xml[f]) => out[f].exists

(***************************************************************************)
(* Properties of the loops run by several workers.                         *)
(***************************************************************************)
AllDone == work.loop # "none" /\ \A w \in Workers : ~Busy(w)

\* C20: the items of a loop share no mutable state: when the list the loop
\* runs over is partitioned among workers whose steps interleave in any
\* way, the final output tree is the one the sequential run produces, for
\* the bibliography repair loop, the keyword repair loops and the
\* per-source-chapter loop of process_all_chapters.
C20_ShardedRunEqualsSequential ==
    AllDone => out = SequentialRun(work.loop, src, xml, work.start)

(***************************************************************************)
(* The two bibliography repairs compared.                                  *)
(***************************************************************************)
\* what the other of the two functions makes of the document the latest
\* operation started from, with the citations of the same source document
OtherRepair ==
    LET doc == last.before[last.file].doc
    IN  IF last.op = "fix_bibliography_content"
        THEN FixBibliographyFile(doc, CitationsByNum(src[last.n].cits))
        ELSE FixBibliographyContent(ReadText(doc), CitationsById(src[last.n].cits))

\* C23: the two bibliography repairs are equivalent: on the same document
\* text and the same source citations, fix_bibliography_content and
\* fix_bibliography_file give the same patched text and the same number of
\* fixes, also for entries padded with blanks and for sources that hold
\* several spellings of one id (CR1, CR01, CR001).
C23_RepairsAgree ==
    last.op \in BibOps =>
        /\ ReadText(out[last.file].doc) = ReadText(OtherRepair.content)
        /\ Len(last.fixes) = Len(OtherRepair.fixes)

(***************************************************************************)
(* The detector and the repair of fix_keywords.py compared.                *)
(***************************************************************************)
\* the position of the paragraph find_garbled_keywords_files reports file f
\* of the tree for; 0 when it does not report the file
DetectedAt(tree, f) ==
    IF tree[f].exists THEN SearchPara(ReadText(tree[f].doc), DetectPattern) ELSE 0

\* the chapter of file f resolves to a source file with keywords
HasKeywordSource(f) ==
    LET n == ToInt(ChapterDigits(f), 10) - ChapterOffset
    IN  /\ ChapterDigits(f) # <<>>
        /\ n \in SrcNums /\ src[n].exists
        /\ ExtractKeywords(src[n].kws) # <<>>

\* C22: in fix_keywords the detector and the repair agree: every file that
\* find_garbled_keywords_files reports, whose chapter resolves to a source
\* file with a non-empty keyword list, is rewritten by main(), the paragraph
\* it was reported for is replaced, and the file is named in the fixes.
C22_DetectedIsRepaired ==
    last.op = "fix_keywords_main" =>
        \A f \in Files :
            (DetectedAt(last.before, f) # 0 /\ HasKeywordSource(f)) =>
                LET i == DetectedAt(last.before, f)
                IN  /\ out[f] # last.before[f]
                    /\ ReadText(out[f].doc)[i] # ReadText(last.before[f].doc)[i]
                    /\ DetectedAt(out, f) # i
                    /\ \E k \in 1..Len(last.fixes) : last.fixes[k].file = f

(***************************************************************************)
(* Repairs over a sequence of runs.                                        *)
(***************************************************************************)
\* segment i of file f of the tree is no longer what the derivative file
\* holds there: it has been replaced by its repaired form
RepairedRegion(tree, f, i) ==
    /\ tree[f].exists /\ xml[f].exists
    /\ i <= Len(tree[f].doc) /\ i <= Len(xml[f].doc)
    /\ ReadText(tree[f].doc)[i] # ReadText(xml[f].doc)[i]

\* C21: repairs are never reverted: under any sequence of runs of the four
\* scripts over a fixed source corpus and derivative corpus, a region of a
\* file of the output tree that has been replaced by its repaired form is
\* in that same form after every later run.
C21_RepairsNeverReverted ==
    [][\A f \in Files :
          \A i \in 1..Len(out[f].doc) :
              RepairedRegion(out, f, i) =>
                  /\ out'[f].exists /\ i <= Len(out'[f].doc)
                  /\ ReadText(out'[f].doc)[i] = ReadText(out[f].doc)[i]]_vars

====
